---------------------------- MODULE Spec2Model ----------------------------
(***************************************************************************)
(* A model of lib/llvm/compiler.cpp: the per-function translator           *)
(* (FunctionCompiler) that lowers a validated WebAssembly instruction      *)
(* stream to SSA basic blocks, and the run-time behaviour of the code it   *)
(* emits for division/remainder, atomic alignment checks and gas           *)
(* accounting.                                                             *)
(*                                                                         *)
(* All WebAssembly value types are collapsed into one, so a block type is  *)
(* a pair <<number of parameters, number of results>>.                     *)
(***************************************************************************)
EXTENDS Integers, Sequences, FiniteSets, TLC

\* ------------------------------------------------------------------ bounds
\* Two classes of instruction streams are translated: streams of control and
\* parametric instructions only, up to MaxInstrs long, and streams of any
\* instruction, up to MaxOpInstrs long (the closing `end` included).
MaxInstrs == 5
MaxOpInstrs == 4
\* Deepest control stack (the function body frame included).
MaxDepth == 3
\* Highest operand stack the validator admits.
MaxHeight == 3

VARIABLES
  fc,      \* the FunctionCompiler object (its fields, the builder, the IR)
  val,     \* the validator's view of the same stream (the precondition)
  lastOp,  \* the instruction translated by the last step
  left,    \* the Control record returned by the last leaveBlock of End/Else
  tpc,     \* where FunctionCompiler::compile(Code, Type) stands
  stream,  \* the class of the stream: "control" or "any"
  rt,      \* the machine that runs emitted code: registers, memory, threads
  cc       \* the Compiler object and the calls of compile(Module) on it

tvars == <<fc, val, lastOp, left, tpc, stream, cc>>
vars == <<fc, val, lastOp, left, tpc, stream, rt, cc>>

\* ------------------------------------------------------------ IR builder
NoBlock == 0
Undef == [k |-> "undef", i |-> 0]
Terminators == {"br", "condbr", "switch", "ret", "unreachable"}

ErrKinds == {"Unreachable", "DivideByZero", "IntegerOverflow",
             "UnalignedAtomicAccess", "AccessNullFunc",
             "CostLimitExceeded", "Interrupted", "InvalidConvToInt"}

\* LLVM::BasicBlock::create: a new block, appended to the function.
create(s, name) ==
  [s EXCEPT !.Blocks = Append(@, [name |-> name, term |-> 0])]

\* The block the last create made.
newBB(s) == Len(s.Blocks)

\* Builder.create*: one IR instruction appended to the insert block. `to` is
\* the tuple of its target blocks (or of its immediates), `arg` tells its
\* operand where the same operation is emitted for several.
emitTo(s, op, to, arg) ==
  [s EXCEPT !.Emitted = Append(@, [bb |-> s.InsertBlock, op |-> op,
                                   to |-> to, arg |-> arg]),
            !.Blocks[s.InsertBlock].term =
                @ + (IF op \in Terminators THEN 1 ELSE 0)]

emit(s, op) == emitTo(s, op, <<>>, "")

positionAtEnd(s, bb) == [s EXCEPT !.InsertBlock = bb]

\* Builder.createPHI followed by its addIncoming calls.
createPHI(s, incs) ==
  [emit(s, "phi") EXCEPT !.PHIs = Append(@, [bb |-> s.InsertBlock, inc |-> incs])]

newPHI(s) == [k |-> "phi", i |-> Len(s.PHIs)]

\* ------------------------------------------------- operand / control stack
stackPush(s, v) == [s EXCEPT !.Stack = Append(@, v)]

stackPopAssume(s) ==
  /\ (s.ControlStack # <<>> \/ s.Stack # <<>>)
  /\ (s.ControlStack = <<>>
        \/ Len(s.Stack) > s.ControlStack[Len(s.ControlStack)].StackSize)

stackPop(s) ==
  [s EXCEPT !.Stack = IF @ = <<>> THEN @ ELSE SubSeq(@, 1, Len(@) - 1),
            !.ok = @ /\ stackPopAssume(s)]

\* Stack.back()
stackBack(s) == IF s.Stack = <<>> THEN Undef ELSE s.Stack[Len(s.Stack)]

RECURSIVE popN(_, _)
popN(s, n) == IF n = 0 THEN s ELSE popN(stackPop(s), n - 1)

\* The n values n successive stackPop calls return, in stack order.
topN(s, n) ==
  [j \in 1..n |->
     IF Len(s.Stack) - n + j >= 1 THEN s.Stack[Len(s.Stack) - n + j] ELSE Undef]

RECURSIVE pushAll(_, _)
pushAll(s, vs) ==
  IF vs = <<>> THEN s ELSE pushAll(stackPush(s, Head(vs)), Tail(vs))

isUnreachable(s) ==
  IF s.ControlStack = <<>> THEN s.IsUnreachable
  ELSE s.ControlStack[Len(s.ControlStack)].Unreachable

\* A faulty setUnreachable, which sets nothing.
setUnreachable_None(s) == s

setUnreachable(s) ==
  IF s.ControlStack = <<>> THEN [s EXCEPT !.IsUnreachable = TRUE]
  ELSE [s EXCEPT !.ControlStack[Len(s.ControlStack)].Unreachable = TRUE]

\* A faulty enterBlock, whose frames all start reachable.
enterBlock_Live(s, JumpBlock, NextBlock, ElseBlock, Args, Type, ReturnPHI) ==
  LET s1 == pushAll([s EXCEPT !.ok = @ /\ (Type[1] = Len(Args))], Args)
  IN [s1 EXCEPT !.ControlStack =
        Append(@, [StackSize |-> Len(s1.Stack) - Len(Args),
                   Unreachable |-> FALSE,
                   JumpBlock |-> JumpBlock, NextBlock |-> NextBlock,
                   ElseBlock |-> ElseBlock, Args |-> Args, Type |-> Type,
                   ReturnPHI |-> ReturnPHI])]

enterBlock(s, JumpBlock, NextBlock, ElseBlock, Args, Type, ReturnPHI) ==
  LET s1 == pushAll([s EXCEPT !.ok = @ /\ (Type[1] = Len(Args))], Args)
  IN [s1 EXCEPT !.ControlStack =
        Append(@, [StackSize |-> Len(s1.Stack) - Len(Args),
                   Unreachable |-> isUnreachable(s1),
                   JumpBlock |-> JumpBlock, NextBlock |-> NextBlock,
                   ElseBlock |-> ElseBlock, Args |-> Args, Type |-> Type,
                   ReturnPHI |-> ReturnPHI])]

\* leaveBlock returns the popped Control (Entry) beside the new state (fc).
\* A faulty leaveBlock, which collects the results of an unreachable frame
\* as well.
leaveBlock_PopsDead(s) ==
  LET Entry0 == s.ControlStack[Len(s.ControlStack)]
      s1 == [s EXCEPT !.ControlStack = SubSeq(@, 1, Len(@) - 1)]
      NextBlock == IF Entry0.NextBlock # NoBlock THEN Entry0.NextBlock
                   ELSE Entry0.JumpBlock
      s2 == emitTo(popN(s1, Entry0.Type[2]), "br", <<NextBlock>>, "")
      s3 == positionAtEnd(s2, NextBlock)
  IN [fc |-> [s3 EXCEPT
                !.Stack = IF Entry0.StackSize <= Len(@)
                          THEN SubSeq(@, 1, Entry0.StackSize) ELSE @,
                !.ok = @ /\ Entry0.StackSize <= Len(s3.Stack)],
      Entry |-> Entry0]

leaveBlock(s) ==
  LET Entry0 == s.ControlStack[Len(s.ControlStack)]
      s1 == [s EXCEPT !.ControlStack = SubSeq(@, 1, Len(@) - 1)]
      NextBlock == IF Entry0.NextBlock # NoBlock THEN Entry0.NextBlock
                   ELSE Entry0.JumpBlock
      nret == Entry0.Type[2]
      s2 == IF ~Entry0.Unreachable
            THEN emitTo(popN(s1, nret), "br", <<NextBlock>>, "")
            ELSE emit(s1, "unreachable")
      Entry == IF ~Entry0.Unreachable /\ nret > 0
               THEN [Entry0 EXCEPT !.ReturnPHI =
                       Append(@, <<topN(s1, nret), s1.InsertBlock>>)]
               ELSE Entry0
      s3 == positionAtEnd(s2, NextBlock)
  IN [fc |-> [s3 EXCEPT
                !.Stack = IF Entry.StackSize <= Len(@)
                          THEN SubSeq(@, 1, Entry.StackSize) ELSE @,
                !.ok = @ /\ Entry.StackSize <= Len(s3.Stack)],
      Entry |-> Entry]

RECURSIVE buildPHINodes(_, _, _, _)
buildPHINodes(s, n, I, Incomings) ==
  IF I > n THEN s
  ELSE LET incs == [q \in 1..Len(Incomings) |->
                      <<IF I <= Len(Incomings[q][1]) THEN Incomings[q][1][I]
                        ELSE Undef, Incomings[q][2]>>]
           s1 == createPHI([s EXCEPT !.ok = @ /\
                      \A q \in 1..Len(Incomings) : Len(Incomings[q][1]) = n],
                           incs)
       IN buildPHINodes(stackPush(s1, newPHI(s1)), n, I + 1, Incomings)

\* A faulty buildPHI, which pushes no result.
buildPHI_NoPush(s, RetType, Incomings) == s

buildPHI(s, RetType, Incomings) ==
  IF RetType = 0 THEN s
  ELSE IF Len(Incomings) = 0 THEN pushAll(s, [j \in 1..RetType |-> Undef])
  ELSE IF Len(Incomings) = 1 THEN pushAll(s, Incomings[1][1])
  ELSE buildPHINodes(s, RetType, 1, Incomings)

\* ------------------------------------------------------------- trap blocks
\* A faulty getTrapBB, which never looks into the cache.
getTrapBB_Fresh(s, Error) ==
  LET s1 == create(s, "trap")
  IN [s1 EXCEPT !.TrapBB[Error] = newBB(s1), !.Requested = @ \cup {Error}]

\* A faulty getTrapBB, which gives every error kind the block of the first.
getTrapBB_Shared(s, Error) ==
  IF \E e \in ErrKinds : s.TrapBB[e] # NoBlock
  THEN [s EXCEPT !.TrapBB[Error] =
                   s.TrapBB[CHOOSE e \in ErrKinds : s.TrapBB[e] # NoBlock],
                 !.Requested = @ \cup {Error}]
  ELSE LET s1 == create(s, "trap")
       IN [s1 EXCEPT !.TrapBB[Error] = newBB(s1),
                     !.Requested = @ \cup {Error}]

getTrapBB(s, Error) ==
  IF s.TrapBB[Error] # NoBlock
  THEN [s EXCEPT !.Requested = @ \cup {Error}]
  ELSE LET s1 == create(s, "trap")
       IN [s1 EXCEPT !.TrapBB[Error] = newBB(s1),
                     !.Requested = @ \cup {Error}]

\* ---------------------------------------------------- counters, gas, stop
\* A faulty updateInstrCount, which emits nothing.
updateInstrCount_None(s) == s

\* A faulty updateInstrCount, which adds the slot and does not clear it.
updateInstrCount_NoReset(s) ==
  IF s.LocalInstrCount THEN emit(s, "instr.flush") ELSE s

updateInstrCount(s) ==
  IF s.LocalInstrCount
  THEN emit(emit(s, "instr.flush"), "instr.reset")
  ELSE s

\* A faulty updateGas, which publishes the new gas and then compares it with
\* the limit.
updateGas_CheckAfter(s) ==
  IF ~s.LocalGas THEN s
  ELSE LET CurrBB == s.InsertBlock
           s1 == create(s, "gas_check")
           CheckBB == newBB(s1)
           s2 == create(s1, "gas_ok")
           OkBB == newBB(s2)
           s3 == create(s2, "gas_end")
           EndBB == newBB(s3)
           s4 == emitTo(emit(emit(s3, "gas.load_local"), "gas.load"),
                        "br", <<CheckBB>>, "")
           s5 == emit(emit(emitTo(positionAtEnd(s4, CheckBB), "phi",
                                  <<CurrBB, CheckBB>>, "Gas,RGas"),
                           "gas.add"), "gas.cmpxchg")
           s6 == emitTo(s5, "condbr", <<OkBB, CheckBB>>, "succeed")
           s7 == getTrapBB(positionAtEnd(s6, OkBB), "CostLimitExceeded")
           s8 == emitTo(s7, "condbr", <<EndBB, s7.TrapBB["CostLimitExceeded"]>>,
                        "ule")
       IN emit(positionAtEnd(s8, EndBB), "gas.reset")

\* A faulty updateGas, which publishes the new gas without comparing it.
updateGas_Unchecked(s) ==
  IF ~s.LocalGas THEN s
  ELSE LET CurrBB == s.InsertBlock
           s1 == create(s, "gas_check")
           CheckBB == newBB(s1)
           s2 == create(s1, "gas_ok")
           OkBB == newBB(s2)
           s3 == create(s2, "gas_end")
           EndBB == newBB(s3)
           s4 == emitTo(emit(emit(s3, "gas.load_local"), "gas.load"),
                        "br", <<CheckBB>>, "")
           s5 == emit(emitTo(positionAtEnd(s4, CheckBB), "phi",
                             <<CurrBB, OkBB>>, "Gas,RGas"), "gas.add")
           s7 == emitTo(s5, "br", <<OkBB>>, "")
           s8 == emit(positionAtEnd(s7, OkBB), "gas.cmpxchg")
           s9 == emitTo(s8, "condbr", <<EndBB, CheckBB>>, "succeed")
       IN emit(positionAtEnd(s9, EndBB), "gas.reset")

updateGas(s) ==
  IF ~s.LocalGas THEN s
  ELSE LET CurrBB == s.InsertBlock
           s1 == create(s, "gas_check")
           CheckBB == newBB(s1)
           s2 == create(s1, "gas_ok")
           OkBB == newBB(s2)
           s3 == create(s2, "gas_end")
           EndBB == newBB(s3)
           s4 == emitTo(emit(emit(s3, "gas.load_local"), "gas.load"),
                        "br", <<CheckBB>>, "")
           s5 == emit(emitTo(positionAtEnd(s4, CheckBB), "phi",
                             <<CurrBB, OkBB>>, "Gas,RGas"), "gas.add")
           s6 == getTrapBB(s5, "CostLimitExceeded")
           s7 == emitTo(s6, "condbr", <<OkBB, s6.TrapBB["CostLimitExceeded"]>>,
                        "ule")
           s8 == emit(positionAtEnd(s7, OkBB), "gas.cmpxchg")
           s9 == emitTo(s8, "condbr", <<EndBB, CheckBB>>, "succeed")
       IN emit(positionAtEnd(s9, EndBB), "gas.reset")

updateGasAtTrap(s) ==
  IF s.LocalGas THEN emit(s, "gas.atomic_add") ELSE s

\* A faulty checkStop, which traps when the token it read is 0.
checkStop_Swapped(s) ==
  IF ~s.Interruptible THEN s
  ELSE LET s1 == create(s, "NotStop")
           NotStopBB == newBB(s1)
           s2 == getTrapBB(emit(s1, "stop.xchg"), "Interrupted")
           s3 == emitTo(s2, "condbr", <<s2.TrapBB["Interrupted"], NotStopBB>>,
                        "eq0")
       IN positionAtEnd(s3, NotStopBB)

\* A faulty checkStop, which polls nothing.
checkStop_None(s) == s

checkStop(s) ==
  IF ~s.Interruptible THEN s
  ELSE LET s1 == create(s, "NotStop")
           NotStopBB == newBB(s1)
           s2 == getTrapBB(emit(s1, "stop.xchg"), "Interrupted")
           s3 == emitTo(s2, "condbr", <<NotStopBB, s2.TrapBB["Interrupted"]>>,
                        "eq0")
       IN positionAtEnd(s3, NotStopBB)

compileReturn(s) ==
  LET s1 == updateGas(updateInstrCount(s))
  IN IF s1.FRet = 0 THEN emit(s1, "ret")
     ELSE emit(popN(s1, s1.FRet), "ret")

\* The values an instruction defines: one id per (instruction, result).
Val(s, kind, j) == [k |-> kind, i |-> 10 * s.NInstr + j]

\* A faulty continuation, which stays in the terminated block.
deadBlock_Same(s, name) == s

\* positionAtEnd(BasicBlock::create(name)) after an unconditional transfer.
deadBlock(s, name) ==
  LET s1 == create(s, name) IN positionAtEnd(s1, newBB(s1))

\* ------------------------------------------------------------------ calls
compileCallOp(s, p, r) ==
  LET s1 == emit(popN(s, p), "call")
  IN pushAll(s1, [j \in 1..r |-> Val(s1, "call", j)])

\* The fast/slow split shared by call_indirect and call_ref: the current
\* block asks for the function symbol, NotNullBB calls it directly, IsNullBB
\* goes through the intrinsic, both join in EndBB with one PHI per result.
callSplit(s, NotNullBB, IsNullBB, EndBB, symbol, slow, r) ==
  LET s1 == emitTo(emitTo(s, "call.intrinsic", <<>>, symbol),
                   "condbr", <<NotNullBB, IsNullBB>>, "notnull")
      s2 == emitTo(emit(positionAtEnd(s1, NotNullBB), "call"),
                   "br", <<EndBB>>, "")
      s3 == emitTo(emitTo(positionAtEnd(s2, IsNullBB),
                          "call.intrinsic", <<>>, slow),
                   "br", <<EndBB>>, "")
      s4 == positionAtEnd(s3, EndBB)
      RECURSIVE phis(_, _)
      phis(t, j) == IF j > r THEN t
                    ELSE phis(stackPush(emit(t, "phi"), Val(t, "callphi", j)),
                              j + 1)
  IN phis(s4, 1)

compileIndirectCallOp(s, p, r) ==
  LET s1 == create(s, "c_i.not_null")
      s2 == create(s1, "c_i.is_null")
      s3 == create(s2, "c_i.end")
  IN callSplit(popN(stackPop(s3), p), newBB(s1), newBB(s2), newBB(s3),
               "TableGetFuncSymbol", "CallIndirect", r)

compileReturnCallOp(s, p, r) ==
  emit(emit(popN(s, p), "call"), "ret")

\* The tail-call form of the split: both paths return.
returnCallSplit(s, NotNullBB, IsNullBB, symbol, slow) ==
  LET s1 == emitTo(emitTo(s, "call.intrinsic", <<>>, symbol),
                   "condbr", <<NotNullBB, IsNullBB>>, "notnull")
      s2 == emit(emit(positionAtEnd(s1, NotNullBB), "call"), "ret")
  IN emit(emitTo(positionAtEnd(s2, IsNullBB), "call.intrinsic", <<>>, slow),
          "ret")

compileReturnIndirectCallOp(s, p, r) ==
  LET s1 == create(s, "c_i.not_null")
      s2 == create(s1, "c_i.is_null")
  IN returnCallSplit(popN(stackPop(s2), p), newBB(s1), newBB(s2),
                     "TableGetFuncSymbol", "CallIndirect")

\* A faulty call_ref, which takes the reference without the null test.
refNotNull_None(s) == stackPop(s)

\* The null test of the reference that call_ref and return_call_ref start with.
refNotNull(s) ==
  LET s1 == create(stackPop(s), "c_r.ref_not_null")
      OkBB == newBB(s1)
      s2 == getTrapBB(s1, "AccessNullFunc")
      s3 == emitTo(s2, "condbr", <<OkBB, s2.TrapBB["AccessNullFunc"]>>,
                   "ref!=0")
  IN positionAtEnd(s3, OkBB)

compileCallRefOp(s, p, r) ==
  LET s1 == create(s, "c_r.not_null")
      s2 == create(s1, "c_r.is_null")
      s3 == create(s2, "c_i.end")
  IN callSplit(popN(refNotNull(s3), p), newBB(s1), newBB(s2), newBB(s3),
               "RefGetFuncSymbol", "CallRef", r)

compileReturnCallRefOp(s, p, r) ==
  LET s1 == create(s, "c_r.not_null")
      s2 == create(s1, "c_r.is_null")
  IN returnCallSplit(popN(refNotNull(s2), p), newBB(s1), newBB(s2),
                     "RefGetFuncSymbol", "CallRef")

\* ---------------------------------------------------------------- atomics
\* Stack.back() = v
setBack(s, v) ==
  [s EXCEPT !.Stack = IF @ = <<>> THEN @ ELSE [@ EXCEPT ![Len(@)] = v],
            !.ok = @ /\ s.Stack # <<>>]

\* A faulty alignment check, whose mask is the width in bytes itself.
compileAtomicCheckOffsetAlignment_Width(s, BitWidth) ==
  LET s1 == create(emitTo(s, "and", <<BitWidth \div 8>>, ""),
                   "address_align_ok")
      OkBB == newBB(s1)
      s2 == getTrapBB(s1, "UnalignedAtomicAccess")
      s3 == emitTo(s2, "condbr",
                   <<OkBB, s2.TrapBB["UnalignedAtomicAccess"]>>, "aligned")
  IN positionAtEnd(s3, OkBB)

\* BitWidth is the width of IntType; the mask is (BitWidth >> 3) - 1.
compileAtomicCheckOffsetAlignment(s, BitWidth) ==
  LET s1 == create(emitTo(s, "and", <<(BitWidth \div 8) - 1>>, ""),
                   "address_align_ok")
      OkBB == newBB(s1)
      s2 == getTrapBB(s1, "UnalignedAtomicAccess")
      s3 == emitTo(s2, "condbr",
                   <<OkBB, s2.TrapBB["UnalignedAtomicAccess"]>>, "aligned")
  IN positionAtEnd(s3, OkBB)

\* Offset = zext(Stack.back()), plus MemoryOffset where that is not 0.
atomicOffset(s, MemoryOffset) ==
  LET s1 == emit(s, "zext")
  IN IF MemoryOffset # 0 THEN emitTo(s1, "add", <<MemoryOffset>>, "") ELSE s1

compileMemoryFence(s) == emit(s, "fence")

compileAtomicNotify(s, MemoryOffset) ==
  LET s1 == compileAtomicCheckOffsetAlignment(
              atomicOffset(stackPop(s), MemoryOffset), 32)
      s2 == emitTo(stackPop(s1), "call.intrinsic", <<>>, "MemAtomicNotify")
  IN stackPush(s2, Val(s2, "notify", 1))

compileAtomicWait(s, MemoryOffset, BitWidth) ==
  LET s1 == compileAtomicCheckOffsetAlignment(
              atomicOffset(stackPop(stackPop(s)), MemoryOffset), BitWidth)
      s2 == emitTo(stackPop(s1), "call.intrinsic", <<>>, "MemAtomicWait")
  IN stackPush(s2, Val(s2, "wait", 1))

compileAtomicLoad(s, MemoryOffset, Alignment, BitWidth) ==
  LET s1 == emitTo(compileAtomicCheckOffsetAlignment(
                     atomicOffset(s, MemoryOffset), BitWidth),
                   "atomic.load", <<Alignment>>, "")
  IN setBack(s1, Val(s1, "aload", 1))

compileAtomicStore(s, MemoryOffset, Alignment, BitWidth) ==
  emitTo(compileAtomicCheckOffsetAlignment(
           atomicOffset(stackPop(s), MemoryOffset), BitWidth),
         "atomic.store", <<Alignment>>, "")

compileAtomicRMWOp(s, MemoryOffset, Alignment, BitWidth) ==
  LET s1 == emitTo(compileAtomicCheckOffsetAlignment(
                     atomicOffset(stackPop(s), MemoryOffset), BitWidth),
                   "atomicrmw", <<Alignment>>, "")
  IN setBack(s1, Val(s1, "rmw", 1))

compileAtomicCompareExchange(s, MemoryOffset, Alignment, BitWidth) ==
  LET s1 == emitTo(compileAtomicCheckOffsetAlignment(
                     atomicOffset(stackPop(stackPop(s)), MemoryOffset),
                     BitWidth),
                   "cmpxchg", <<Alignment>>, "")
  IN setBack(s1, Val(s1, "cmpxchg", 1))

\* ------------------------------------------------- division and remainder
\* kForceDivCheck is a compile-time constant of the source.
kForceDivCheck == TRUE

\* The guard `RHS != 0`, emitted in the current block.
divZeroGuard(s, okName) ==
  LET s1 == create(s, okName)
      OkBB == newBB(s1)
      s2 == getTrapBB(s1, "DivideByZero")
      s3 == emitTo(s2, "condbr", <<OkBB, s2.TrapBB["DivideByZero"]>>,
                   "rhs!=0")
  IN positionAtEnd(s3, OkBB)

\* A faulty div_s, which guards against the zero divisor only.
compileDivS_ZeroOnly(s) ==
  LET s1 == emit(divZeroGuard(stackPop(stackPop(s)), "div.ok"), "sdiv")
  IN stackPush(s1, Val(s1, "sdiv", 1))

compileDivS(s) ==
  LET s0 == stackPop(stackPop(s))
      s1 == create(s0, "div.nozero")
      NoZeroBB == newBB(s1)
      s2 == create(s1, "div.ok")
      OkBB == newBB(s2)
      s3 == getTrapBB(s2, "DivideByZero")
      s4 == positionAtEnd(
              emitTo(s3, "condbr", <<NoZeroBB, s3.TrapBB["DivideByZero"]>>,
                     "rhs!=0"), NoZeroBB)
      s5 == getTrapBB(s4, "IntegerOverflow")
      s6 == positionAtEnd(
              emitTo(s5, "condbr", <<OkBB, s5.TrapBB["IntegerOverflow"]>>,
                     "notoverflow"), OkBB)
      s7 == emit(IF kForceDivCheck THEN s6 ELSE s0, "sdiv")
  IN stackPush(s7, Val(s7, "sdiv", 1))

compileDivU(s) ==
  LET s0 == stackPop(stackPop(s))
      s1 == emit(IF kForceDivCheck THEN divZeroGuard(s0, "div.ok") ELSE s0,
                 "udiv")
  IN stackPush(s1, Val(s1, "udiv", 1))

\* A faulty rem_s, which guards against the zero divisor only.
compileRemS_ZeroOnly(s) ==
  LET s1 == emit(divZeroGuard(stackPop(stackPop(s)), "rem.ok"), "srem")
  IN stackPush(s1, Val(s1, "srem", 1))

compileRemS(s) ==
  LET s0 == stackPop(stackPop(s))
      s1 == create(s0, "no.overflow")
      NoOverflowBB == newBB(s1)
      s2 == create(s1, "end.overflow")
      EndBB == newBB(s2)
      s3 == IF kForceDivCheck THEN divZeroGuard(s2, "rem.ok") ELSE s2
      s4 == emitTo(s3, "condbr", <<NoOverflowBB, EndBB>>, "notoverflow")
      s5 == emitTo(emit(positionAtEnd(s4, NoOverflowBB), "srem"),
                   "br", <<EndBB>>, "")
      s6 == emitTo(positionAtEnd(s5, EndBB), "phi",
                   <<NoOverflowBB, s3.InsertBlock>>, "srem,0")
  IN stackPush(s6, Val(s6, "srem", 1))

compileRemU(s) ==
  LET s0 == stackPop(stackPop(s))
      s1 == emit(IF kForceDivCheck THEN divZeroGuard(s0, "rem.ok") ELSE s0,
                 "urem")
  IN stackPush(s1, Val(s1, "urem", 1))

\* ------------------------------------------------------------ truncations
\* A floating-point number is [nan, h]: not a number, or h halves (h / 2).
\* A format is the width of its mantissa, FPWidth: it holds the numbers of at
\* most FPWidth significant bits.
\* LLVM::Value::getConstReal(FPType, N) of an integer N: N rounded to the
\* nearest number of the format, to the even one of two as near.
getConstReal(FPWidth, N) ==
  LET n == IF N < 0 THEN 0 - N ELSE N
      L == CHOOSE l \in 0..64 : n < 2 ^ l /\ (l = 0 \/ n >= 2 ^ (l - 1))
      e == L - FPWidth
      q == n \div (2 ^ e)
      r == n % (2 ^ e)
      up == 2 * r > 2 ^ e \/ (2 * r = 2 ^ e /\ q % 2 = 1)
      m == IF L <= FPWidth THEN n ELSE (q + (IF up THEN 1 ELSE 0)) * (2 ^ e)
  IN [nan |-> FALSE, h |-> 2 * (IF N < 0 THEN 0 - m ELSE m)]

\* Faulty limits, which take every format for precise.
truncLimits_Precise(IsSigned, BitWidth, FPWidth) ==
  LET Min == IF IsSigned THEN 0 - 2 ^ (BitWidth - 1) ELSE 0
      Max == IF IsSigned THEN 2 ^ (BitWidth - 1) - 1 ELSE 2 ^ BitWidth - 1
  IN [Precise |-> TRUE,
      MinInt |-> Min % (2 ^ BitWidth), MaxInt |-> Max,
      MinFp |-> getConstReal(FPWidth, Min),
      MaxFp |-> getConstReal(FPWidth, Max)]

\* [Precise, MinInt, MaxInt, MinFp, MaxFp] of the four truncations: the
\* limits of IntType as integers of its width and as numbers of the format.
truncLimits(IsSigned, BitWidth, FPWidth) ==
  LET Min == IF IsSigned THEN 0 - 2 ^ (BitWidth - 1) ELSE 0
      Max == IF IsSigned THEN 2 ^ (BitWidth - 1) - 1 ELSE 2 ^ BitWidth - 1
  IN [Precise |-> BitWidth <= FPWidth,
      MinInt |-> Min % (2 ^ BitWidth), MaxInt |-> Max,
      MinFp |-> getConstReal(FPWidth, Min),
      MaxFp |-> getConstReal(FPWidth, Max)]

\* createFCmp (of the value with itself, or of its truncation with the
\* constants Fps), then createCondBr on its result.
fcmpBr(s, pred, Fps, Then, Else) ==
  emitTo(emitTo(s, "fcmp", Fps, pred), "condbr", <<Then, Else>>, "fcmp")

\* createFCmp and createCondBr(.., Then, getTrapBB(Error)), then
\* Builder.positionAtEnd(Then).
fcmpTrap(s, pred, Fps, Then, Error) ==
  LET s1 == getTrapBB(s, Error)
  IN positionAtEnd(fcmpBr(s1, pred, Fps, Then, s1.TrapBB[Error]), Then)

\* createFCmp and createCondBr(.., Then, Else), then
\* Builder.positionAtEnd(Then).
fcmpElse(s, pred, Fps, Then, Else) ==
  positionAtEnd(fcmpBr(s, pred, Fps, Then, Else), Then)

\* stackPush of the value the last instruction defines.
pushVal(s, kind) == stackPush(s, Val(s, kind, 1))

\* The code of compileSignedTrunc and compileUnsignedTrunc, the blocks
\* NormBB, NotMinBB and NotMaxBB made: the checks of NaN, of the lower and
\* of the upper limit, then the conversion.
truncChecks(s, lim, NormBB, NotMinBB, NotMaxBB, conv, BitWidth) ==
  pushVal(
    emitTo(
      fcmpTrap(
        fcmpTrap(
          emit(fcmpTrap(stackPop(s), "ord", <<>>, NormBB, "InvalidConvToInt"),
               "trunc"),
          "oge", <<lim.MinFp>>, NotMinBB, "IntegerOverflow"),
        IF lim.Precise THEN "ole" ELSE "olt", <<lim.MaxFp>>, NotMaxBB,
        "IntegerOverflow"),
      conv, <<BitWidth>>, ""),
    "trunc")

\* compileSignedTrunc and compileUnsignedTrunc differ in the limits, in the
\* names of the blocks and in the conversion. The three blocks are the last
\* three of the function.
compileTrunc(s, IsSigned, BitWidth, FPWidth) ==
  LET pre == IF IsSigned THEN "strunc" ELSE "utrunc"
  IN truncChecks(
       create(create(create(s, pre \o ".norm"), pre \o ".notmin"),
              pre \o ".notmax"),
       truncLimits(IsSigned, BitWidth, FPWidth),
       Len(s.Blocks) + 1, Len(s.Blocks) + 2, Len(s.Blocks) + 3,
       IF IsSigned THEN "fptosi" ELSE "fptoui", BitWidth)

compileSignedTrunc(s, BitWidth, FPWidth) ==
  compileTrunc(s, TRUE, BitWidth, FPWidth)

compileUnsignedTrunc(s, BitWidth, FPWidth) ==
  compileTrunc(s, FALSE, BitWidth, FPWidth)

\* An incoming of the PHI of a saturating truncation: a constant of IntType,
\* or the converted value.
SatConst(c, BB) == [const |-> TRUE, c |-> c, bb |-> BB]
SatValue(BB) == [const |-> FALSE, c |-> 0, bb |-> BB]

\* The code of compileSignedTruncSat, its four blocks made.
ssatChecks(s, lim, CurrBB, NormBB, NotMinBB, NotMaxBB, EndBB, BitWidth) ==
  pushVal(
    emitTo(
      positionAtEnd(
        emitTo(
          emitTo(
            fcmpElse(
              fcmpElse(
                emit(fcmpElse(stackPop(s), "ord", <<>>, NormBB, EndBB),
                     "trunc"),
                "oge", <<lim.MinFp>>, NotMinBB, EndBB),
              IF lim.Precise THEN "ole" ELSE "olt", <<lim.MaxFp>>, NotMaxBB,
              EndBB),
            "fptosi", <<BitWidth>>, ""),
          "br", <<EndBB>>, ""),
        EndBB),
      "phi",
      <<SatConst(0, CurrBB), SatConst(lim.MinInt, NormBB),
        SatConst(lim.MaxInt, NotMinBB), SatValue(NotMaxBB)>>,
      "sat"),
    "sat")

compileSignedTruncSat(s, BitWidth, FPWidth) ==
  ssatChecks(
    create(create(create(create(s, "ssat.norm"), "ssat.notmin"),
                  "ssat.notmax"), "ssat.end"),
    truncLimits(TRUE, BitWidth, FPWidth), s.InsertBlock,
    Len(s.Blocks) + 1, Len(s.Blocks) + 2, Len(s.Blocks) + 3,
    Len(s.Blocks) + 4, BitWidth)

\* The code of compileUnsignedTruncSat, its three blocks made.
usatChecks(s, lim, CurrBB, NormBB, NotMaxBB, EndBB, BitWidth) ==
  pushVal(
    emitTo(
      positionAtEnd(
        emitTo(
          emitTo(
            fcmpElse(
              fcmpElse(emit(stackPop(s), "trunc"), "oge", <<lim.MinFp>>,
                       NormBB, EndBB),
              IF lim.Precise THEN "ole" ELSE "olt", <<lim.MaxFp>>, NotMaxBB,
              EndBB),
            "fptoui", <<BitWidth>>, ""),
          "br", <<EndBB>>, ""),
        EndBB),
      "phi",
      <<SatConst(lim.MinInt, CurrBB), SatConst(lim.MaxInt, NormBB),
        SatValue(NotMaxBB)>>,
      "sat"),
    "sat")

compileUnsignedTruncSat(s, BitWidth, FPWidth) ==
  usatChecks(
    create(create(create(s, "usat.norm"), "usat.notmax"), "usat.end"),
    truncLimits(FALSE, BitWidth, FPWidth), s.InsertBlock,
    Len(s.Blocks) + 1, Len(s.Blocks) + 2, Len(s.Blocks) + 3, BitWidth)

\* ---------------------------------------------------------------- branches
getLabel(s, Index) == s.ControlStack[Len(s.ControlStack) - Index].JumpBlock

RECURSIVE addIncomings(_, _, _, _)
addIncomings(PHIs, PhiArgs, Vals, BB) ==
  IF PhiArgs = <<>> THEN PHIs
  ELSE addIncomings(
         [PHIs EXCEPT ![Head(PhiArgs).i].inc = Append(@, <<Head(Vals), BB>>)],
         Tail(PhiArgs), Tail(Vals), BB)

\* A faulty setLableJumpPHI, which takes every frame for a block.
setLableJumpPHI_AsBlock(s, Index) ==
  LET d == Len(s.ControlStack) - Index
      n == s.ControlStack[d].Type[2]
  IN IF n > 0
     THEN [s EXCEPT !.ControlStack[d].ReturnPHI =
                      Append(@, <<topN(s, n), s.InsertBlock>>)]
     ELSE s

setLableJumpPHI(s, Index) ==
  LET d == Len(s.ControlStack) - Index
      Entry == s.ControlStack[d]
  IN IF Entry.NextBlock # NoBlock
     THEN LET n == Entry.Type[1]
              Args == topN(s, n)
              s1 == pushAll(popN(s, n), Args)
          IN [s1 EXCEPT !.PHIs = addIncomings(@, Entry.Args, Args,
                                              s.InsertBlock)]
     ELSE IF Entry.Type[2] > 0
     THEN LET n == Entry.Type[2]
              Rets == topN(s, n)
              s1 == pushAll(popN(s, n), Rets)
          IN [s1 EXCEPT !.ControlStack[d].ReturnPHI =
                          Append(@, <<Rets, s.InsertBlock>>)]
     ELSE s

opUnreachable(s) ==
  LET s1 == getTrapBB(s, "Unreachable")
      s2 == emitTo(s1, "br", <<s1.TrapBB["Unreachable"]>>, "")
  IN deadBlock(setUnreachable(s2), "unreachable.end")

opBr(s, Label) ==
  LET s1 == setLableJumpPHI(s, Label)
      s2 == emitTo(s1, "br", <<getLabel(s1, Label)>>, "")
  IN deadBlock(setUnreachable(s2), "br.end")

opBrIf(s, Label) ==
  LET s1 == setLableJumpPHI(emit(stackPop(s), "icmp"), Label)
      s2 == create(s1, "br_if.end")
      Next == newBB(s2)
  IN positionAtEnd(emitTo(s2, "condbr", <<getLabel(s2, Label), Next>>,
                          "cond!=0"),
                   Next)

\* br_on_null pops the reference, records the branch and pushes the
\* reference (as the vector it was cast to) again.
opBrOnNull(s, Label) ==
  LET s1 == setLableJumpPHI(emit(emit(stackPop(s), "bitcast"), "icmp"), Label)
      s2 == create(s1, "br_on_null.end")
      Next == newBB(s2)
      s3 == positionAtEnd(emitTo(s2, "condbr", <<getLabel(s2, Label), Next>>,
                                 "ref=0"),
                          Next)
  IN stackPush(s3, Val(s3, "bitcast", 1))

\* br_on_non_null records the branch with the reference on the stack and
\* pops it in the block that goes on.
opBrOnNonNull(s, Label) ==
  LET s1 == setLableJumpPHI(emit(emit(s, "bitcast"), "icmp"), Label)
      s2 == create(s1, "br_on_non_null.end")
      Next == newBB(s2)
  IN stackPop(positionAtEnd(emitTo(s2, "condbr", <<getLabel(s2, Label), Next>>,
                                   "ref!=0"),
                            Next))

RECURSIVE addCases(_, _)
addCases(s, Labels) ==
  IF Labels = <<>> THEN s
  ELSE addCases(emitTo(setLableJumpPHI(s, Head(Labels)), "addCase",
                       <<getLabel(s, Head(Labels))>>, ""),
                Tail(Labels))

\* LabelTable is the label list, the default label last.
opBrTable(s, LabelTable) ==
  LET Default == LabelTable[Len(LabelTable)]
      s1 == setLableJumpPHI(stackPop(s), Default)
      s2 == emitTo(s1, "switch", <<getLabel(s1, Default)>>, "")
      s3 == addCases(s2, SubSeq(LabelTable, 1, Len(LabelTable) - 1))
  IN deadBlock(setUnreachable(s3), "br_table.end")

opReturn(s) == deadBlock(setUnreachable(compileReturn(s)), "ret.end")

\* ------------------------------------------------------ structured control
\* Args of a block or an if: popped, or undefined in an unreachable frame.
blockArgs(s, Arity) ==
  IF isUnreachable(s) THEN [j \in 1..Arity |-> Undef] ELSE topN(s, Arity)

\* A faulty collection of the arguments, which pops in dead code too.
popBlockArgs_Always(s, Arity) == popN(s, Arity)

popBlockArgs(s, Arity) ==
  IF isUnreachable(s) THEN s ELSE popN(s, Arity)

opBlock(s, Type) ==
  LET s1 == create(s, "block")
      Block == newBB(s1)
      s2 == create(s1, "block.end")
      EndBlock == newBB(s2)
      s3 == positionAtEnd(emitTo(s2, "br", <<Block>>, ""), Block)
      s4 == enterBlock(popBlockArgs(s3, Type[1]), EndBlock, NoBlock, NoBlock,
                       blockArgs(s3, Type[1]), Type, <<>>)
  IN updateGas(checkStop(s4))

\* The header PHIs of a loop, in the order the source creates them: the value
\* popped I-th (or the I-th undefined value) gets the I-th new PHI.
RECURSIVE loopPHIs(_, _, _)
loopPHIs(s, Vals, Curr) ==
  IF Vals = <<>> THEN s
  ELSE loopPHIs(createPHI(s, << <<Head(Vals), Curr>> >>), Tail(Vals), Curr)

Reverse(q) == [j \in 1..Len(q) |-> q[Len(q) + 1 - j]]

\* A faulty Loop, which enters the header with the values of the entry and
\* makes no PHI.
opLoop_NoPHI(s, Type) ==
  LET s1 == create(s, "loop")
      Loop == newBB(s1)
      s2 == create(s1, "loop.end")
      EndLoop == newBB(s2)
      s3 == positionAtEnd(emitTo(s2, "br", <<Loop>>, ""), Loop)
      s4 == enterBlock(popBlockArgs(s3, Type[1]), Loop, EndLoop, NoBlock,
                       blockArgs(s3, Type[1]), Type, <<>>)
  IN updateGas(checkStop(s4))

opLoop(s, Type) ==
  LET Curr == s.InsertBlock
      s1 == create(s, "loop")
      Loop == newBB(s1)
      s2 == create(s1, "loop.end")
      EndLoop == newBB(s2)
      s3 == positionAtEnd(emitTo(s2, "br", <<Loop>>, ""), Loop)
      Arity == Type[1]
      base == Len(s3.PHIs)
      unreach == isUnreachable(s3)
      s4 == IF unreach
            THEN loopPHIs(s3, [j \in 1..Arity |-> Undef], Curr)
            ELSE loopPHIs(popN(s3, Arity), Reverse(topN(s3, Arity)), Curr)
      Args == [j \in 1..Arity |->
                 [k |-> "phi",
                  i |-> IF unreach THEN base + j ELSE base + Arity + 1 - j]]
      s5 == enterBlock(s4, Loop, EndLoop, NoBlock, Args, Type, <<>>)
  IN updateGas(checkStop(s5))

opIf(s, Type) ==
  LET s1 == create(s, "then")
      Then == newBB(s1)
      s2 == create(s1, "else")
      Else == newBB(s2)
      s3 == create(s2, "if.end")
      EndIf == newBB(s3)
      s4 == IF isUnreachable(s3) THEN s3 ELSE emit(stackPop(s3), "icmp")
      s5 == positionAtEnd(emitTo(s4, "condbr", <<Then, Else>>, "cond!=0"),
                          Then)
  IN enterBlock(popBlockArgs(s5, Type[1]), EndIf, NoBlock, Else,
                blockArgs(s5, Type[1]), Type, <<>>)

\* A faulty End, which closes an if without else as it closes a block.
opEnd_NoElse(s) ==
  LET L1 == leaveBlock(s)
  IN [fc |-> buildPHI(L1.fc, L1.Entry.Type[2], L1.Entry.ReturnPHI),
      Entry |-> L1.Entry]

\* End and Else return the state and the Control the construct left last.
opEnd(s) ==
  LET L1 == leaveBlock(s)
  IN IF L1.Entry.ElseBlock # NoBlock
     THEN LET Block == L1.fc.InsertBlock
              s1 == positionAtEnd(L1.fc, L1.Entry.ElseBlock)
              s2 == enterBlock(s1, Block, NoBlock, NoBlock, L1.Entry.Args,
                               L1.Entry.Type, L1.Entry.ReturnPHI)
              L2 == leaveBlock(s2)
          IN [fc |-> buildPHI(L2.fc, L2.Entry.Type[2], L2.Entry.ReturnPHI),
              Entry |-> L2.Entry]
     ELSE [fc |-> buildPHI(L1.fc, L1.Entry.Type[2], L1.Entry.ReturnPHI),
           Entry |-> L1.Entry]

\* A faulty Else, which restarts the frame with an empty ReturnPHI.
opElse_Forget(s) ==
  LET L1 == leaveBlock(s)
      s1 == positionAtEnd(L1.fc, L1.Entry.ElseBlock)
  IN [fc |-> enterBlock(s1, L1.Entry.JumpBlock, NoBlock, NoBlock,
                        L1.Entry.Args, L1.Entry.Type, <<>>),
      Entry |-> L1.Entry]

opElse(s) ==
  LET L1 == leaveBlock(s)
      s1 == positionAtEnd(L1.fc, L1.Entry.ElseBlock)
  IN [fc |-> enterBlock(s1, L1.Entry.JumpBlock, NoBlock, NoBlock,
                        L1.Entry.Args, L1.Entry.Type, L1.Entry.ReturnPHI),
      Entry |-> L1.Entry]

\* -------------------------------------------------------- the dispatch loop
\* The counter updates the main loop emits in front of every instruction.
mainLoopCount(s) ==
  LET s1 == IF s.LocalInstrCount THEN emit(s, "instr.inc") ELSE s
  IN IF s1.LocalGas THEN emit(s1, "gas.inc") ELSE s1

\* The second switch of Dispatch: the operators behind the unreachable gate.
DispatchPlain(s, I) ==
  CASE I.op = "Unreachable" -> opUnreachable(s)
    [] I.op = "Nop" -> s
    [] I.op = "Br" -> opBr(s, I.ls[1])
    [] I.op = "Br_if" -> opBrIf(s, I.ls[1])
    [] I.op = "Br_table" -> opBrTable(s, I.ls)
    [] I.op = "Br_on_null" -> opBrOnNull(s, I.ls[1])
    [] I.op = "Br_on_non_null" -> opBrOnNonNull(s, I.ls[1])
    [] I.op = "Return" -> opReturn(s)
    [] I.op = "Call" -> compileCallOp(updateGas(updateInstrCount(s)), I.p, I.r)
    [] I.op = "Call_indirect" ->
         compileIndirectCallOp(updateGas(updateInstrCount(s)), I.p, I.r)
    [] I.op = "Return_call" ->
         deadBlock(setUnreachable(
           compileReturnCallOp(updateGas(updateInstrCount(s)), I.p, I.r)),
           "ret_call.end")
    [] I.op = "Return_call_indirect" ->
         deadBlock(setUnreachable(
           compileReturnIndirectCallOp(updateGas(updateInstrCount(s)),
                                       I.p, I.r)),
           "ret_call_indir.end")
    [] I.op = "Call_ref" ->
         compileCallRefOp(updateGas(updateInstrCount(s)), I.p, I.r)
    [] I.op = "Return_call_ref" ->
         deadBlock(setUnreachable(
           compileReturnCallRefOp(updateGas(updateInstrCount(s)), I.p, I.r)),
           "ret_call_ref.end")
    [] I.op = "Const" -> stackPush(s, Val(s, "const", 1))
    [] I.op = "Drop" -> stackPop(s)
    [] I.op = "Div_s" -> compileDivS(s)
    [] I.op = "Div_u" -> compileDivU(s)
    [] I.op = "Rem_s" -> compileRemS(s)
    [] I.op = "Rem_u" -> compileRemU(s)
    [] I.op = "Trunc_s" -> compileSignedTrunc(s, I.ls[1], I.ls[2])
    [] I.op = "Trunc_u" -> compileUnsignedTrunc(s, I.ls[1], I.ls[2])
    [] I.op = "Trunc_sat_s" -> compileSignedTruncSat(s, I.ls[1], I.ls[2])
    [] I.op = "Trunc_sat_u" -> compileUnsignedTruncSat(s, I.ls[1], I.ls[2])
    [] I.op = "Atomic_fence" -> compileMemoryFence(s)
    [] I.op = "Atomic_notify" -> compileAtomicNotify(s, I.ls[1])
    [] I.op = "Atomic_wait" -> compileAtomicWait(s, I.ls[1], I.ls[3])
    [] I.op = "Atomic_load" -> compileAtomicLoad(s, I.ls[1], I.ls[2], I.ls[3])
    [] I.op = "Atomic_store" ->
         compileAtomicStore(s, I.ls[1], I.ls[2], I.ls[3])
    [] I.op = "Atomic_rmw" -> compileAtomicRMWOp(s, I.ls[1], I.ls[2], I.ls[3])
    [] I.op = "Atomic_cmpxchg" ->
         compileAtomicCompareExchange(s, I.ls[1], I.ls[2], I.ls[3])

\* A faulty Dispatch, without the return in front of the second switch.
Dispatch_NoGate(s0, I, Entry0) ==
  LET s == mainLoopCount([s0 EXCEPT !.NInstr = @ + 1])
  IN CASE I.op = "Block" -> [fc |-> opBlock(s, <<I.p, I.r>>), Entry |-> Entry0]
       [] I.op = "Loop" -> [fc |-> opLoop(s, <<I.p, I.r>>), Entry |-> Entry0]
       [] I.op = "If" -> [fc |-> opIf(s, <<I.p, I.r>>), Entry |-> Entry0]
       [] I.op = "End" -> opEnd(s)
       [] I.op = "Else" -> opElse(s)
       [] OTHER -> [fc |-> DispatchPlain(s, I), Entry |-> Entry0]

\* One turn of the loop over the instructions: the counter updates, then
\* Dispatch. The result is the new state and the Control End/Else left.
Dispatch(s0, I, Entry0) ==
  LET s == mainLoopCount([s0 EXCEPT !.NInstr = @ + 1])
  IN CASE I.op = "Block" -> [fc |-> opBlock(s, <<I.p, I.r>>), Entry |-> Entry0]
       [] I.op = "Loop" -> [fc |-> opLoop(s, <<I.p, I.r>>), Entry |-> Entry0]
       [] I.op = "If" -> [fc |-> opIf(s, <<I.p, I.r>>), Entry |-> Entry0]
       [] I.op = "End" -> opEnd(s)
       [] I.op = "Else" -> opElse(s)
       [] OTHER -> [fc |-> IF isUnreachable(s) THEN s ELSE DispatchPlain(s, I),
                    Entry |-> Entry0]

\* -------------------------------------------------------------- validator
\* compile() requires a validated stream. The validator of the WebAssembly
\* specification (one value type) decides which instruction may come next:
\* v.h is its operand-stack height, v.ctrl its control stack.
VTop(v) == v.ctrl[Len(v.ctrl)]

VCanPop(v, n) == v.h - VTop(v).height >= n \/ VTop(v).unreachable

VPop(v, n) ==
  [v EXCEPT !.h = IF v.h - VTop(v).height >= n THEN v.h - n
                  ELSE VTop(v).height]

VPush(v, n) == [v EXCEPT !.h = @ + n]

VUnreachable(v) ==
  [v EXCEPT !.h = VTop(v).height, !.ctrl[Len(v.ctrl)].unreachable = TRUE]

\* Whether the instruction that comes next is dead code: some frame that is
\* open has seen an unconditional transfer of control.
VDead(v) == \E d \in 1..Len(v.ctrl) : v.ctrl[d].unreachable

\* The frames count the live branches that name them (brs), one for each
\* label of the instruction, and the arms before the last one that ran to
\* their end alive (arms).
VBranch(v, I) ==
  IF VDead(v) THEN v
  ELSE [v EXCEPT !.ctrl =
          [d \in 1..Len(v.ctrl) |->
             [v.ctrl[d] EXCEPT !.brs = @ +
                Cardinality({j \in 1..Len(I.ls) :
                               Len(v.ctrl) - I.ls[j] = d})]]]

VLabelArity(v, l) ==
  LET f == v.ctrl[Len(v.ctrl) - l]
  IN IF f.kind = "loop" THEN f.p ELSE f.r

VPushCtrl(v, kind, p, r, g) ==
  [v EXCEPT !.ctrl = Append(@, [kind |-> kind, p |-> p, r |-> r,
                                height |-> v.h, unreachable |-> FALSE,
                                brs |-> 0, arms |-> 0, g |-> g]),
            !.h = @ + p]

VCanPopCtrl(v) ==
  VCanPop(v, VTop(v).r) /\ VPop(v, VTop(v).r).h = VTop(v).height

VPopCtrl(v) ==
  [v EXCEPT !.ctrl = SubSeq(@, 1, Len(@) - 1), !.h = VTop(v).height]

\* <<operands, results>> of the operators without control effect.
Sig(I) ==
  CASE I.op \in {"Nop", "Atomic_fence"} -> <<0, 0>>
    [] I.op = "Const" -> <<0, 1>>
    [] I.op = "Drop" -> <<1, 0>>
    [] I.op \in {"Div_s", "Div_u", "Rem_s", "Rem_u"} -> <<2, 1>>
    [] I.op \in {"Atomic_load", "Trunc_s", "Trunc_u", "Trunc_sat_s",
                 "Trunc_sat_u"} -> <<1, 1>>
    [] I.op = "Atomic_store" -> <<2, 0>>
    [] I.op \in {"Atomic_rmw", "Atomic_notify"} -> <<2, 1>>
    [] I.op \in {"Atomic_cmpxchg", "Atomic_wait"} -> <<3, 1>>
    [] I.op \in {"Call", "Return_call"} -> <<I.p, I.r>>
    [] I.op \in {"Call_indirect", "Call_ref", "Return_call_indirect",
                 "Return_call_ref"} -> <<I.p + 1, I.r>>

\* The instructions of the streams of class "control".
ControlStreamOps == {"Block", "Loop", "If", "Else", "End", "Br", "Br_if",
                     "Return", "Unreachable", "Const", "Drop"}
AtomicOps == {"Atomic_fence", "Atomic_notify", "Atomic_wait", "Atomic_load",
              "Atomic_store", "Atomic_rmw", "Atomic_cmpxchg"}
TailCalls == {"Return_call", "Return_call_indirect", "Return_call_ref"}
CallOps == {"Call", "Call_indirect", "Call_ref"} \cup TailCalls

\* Whether the validator accepts I next.
Valid(v, I) ==
  CASE I.op \in {"Block", "Loop"} -> VCanPop(v, I.p)
    [] I.op = "If" -> VCanPop(v, I.p + 1)
    [] I.op = "Else" -> VTop(v).kind = "if" /\ VCanPopCtrl(v)
    [] I.op = "End" ->
         VCanPopCtrl(v) /\ (VTop(v).kind = "if" => VTop(v).p = VTop(v).r)
    [] I.op = "Br" ->
         I.ls[1] < Len(v.ctrl) /\ VCanPop(v, VLabelArity(v, I.ls[1]))
    [] I.op = "Br_if" ->
         I.ls[1] < Len(v.ctrl) /\ VCanPop(v, 1 + VLabelArity(v, I.ls[1]))
    [] I.op = "Br_on_null" ->
         I.ls[1] < Len(v.ctrl) /\ VCanPop(v, 1 + VLabelArity(v, I.ls[1]))
    [] I.op = "Br_on_non_null" ->
         /\ I.ls[1] < Len(v.ctrl)
         /\ VLabelArity(v, I.ls[1]) >= 1
         /\ VCanPop(v, VLabelArity(v, I.ls[1]))
    [] I.op = "Br_table" ->
         /\ \A j \in 1..Len(I.ls) : I.ls[j] < Len(v.ctrl)
         /\ \A j \in 1..Len(I.ls) :
              VLabelArity(v, I.ls[j]) = VLabelArity(v, I.ls[Len(I.ls)])
         /\ VCanPop(v, 1 + VLabelArity(v, I.ls[Len(I.ls)]))
    [] I.op = "Return" -> VCanPop(v, v.ctrl[1].r)
    [] I.op = "Unreachable" -> TRUE
    [] I.op \in TailCalls -> I.r = v.ctrl[1].r /\ VCanPop(v, Sig(I)[1])
    [] OTHER -> VCanPop(v, Sig(I)[1])

\* The validator's state after I. g is what the translator did when it opened
\* the frame I opens: g.cEntry its stack height at the entry (the parameters
\* still on the stack), g.cDead whether it was in an unreachable frame and
\* g.cFlush whether it emitted a flush of the instruction counter.
VStep(v, I, g) ==
  CASE I.op \in {"Block", "Loop"} ->
         VPushCtrl(VPop(v, I.p), IF I.op = "Loop" THEN "loop" ELSE "block",
                   I.p, I.r, g)
    [] I.op = "If" -> VPushCtrl(VPop(v, I.p + 1), "if", I.p, I.r, g)
    [] I.op = "Else" ->
         LET w == VPushCtrl(VPopCtrl(v), "else", VTop(v).p, VTop(v).r,
                            VTop(v).g)
         IN [w EXCEPT !.ctrl[Len(w.ctrl)].brs = VTop(v).brs,
                      !.ctrl[Len(w.ctrl)].arms = IF VDead(v) THEN 0 ELSE 1]
    [] I.op = "End" -> VPush(VPopCtrl(v), VTop(v).r)
    [] I.op = "Br_if" ->
         LET w == VBranch(v, I)
         IN VPush(VPop(w, 1 + VLabelArity(w, I.ls[1])),
                  VLabelArity(w, I.ls[1]))
    [] I.op = "Br_on_null" ->
         LET w == VBranch(v, I)
         IN VPush(VPop(w, 1 + VLabelArity(w, I.ls[1])),
                  1 + VLabelArity(w, I.ls[1]))
    [] I.op = "Br_on_non_null" ->
         LET w == VBranch(v, I)
         IN VPush(VPop(w, VLabelArity(w, I.ls[1])),
                  VLabelArity(w, I.ls[1]) - 1)
    [] I.op \in {"Br", "Br_table"} -> VUnreachable(VBranch(v, I))
    [] I.op \in {"Return", "Unreachable"} \cup TailCalls -> VUnreachable(v)
    [] OTHER -> VPush(VPop(v, Sig(I)[1]), Sig(I)[2])

\* ------------------------------------------------------------ the inputs
\* Whether the code E holds an instruction op.
HasOp(E, op) == \E j \in 1..Len(E) : E[j].op = op

BlockTypes == {<<0, 0>>, <<1, 1>>}
\* A loop may also have the block type of one value type: no parameter, one
\* result.
LoopTypes == BlockTypes \cup {<<0, 1>>}
CalleeTypes == {<<0, 0>>, <<1, 1>>}
\* <<InstructionCounting, GasMeasuring, Interruptible, number of results>> of
\* the functions compiled.
Configs == {<<TRUE, TRUE, TRUE, 1>>, <<FALSE, FALSE, FALSE, 0>>,
            <<TRUE, FALSE, FALSE, 1>>, <<FALSE, TRUE, TRUE, 0>>}
Labels == 0..(MaxDepth - 1)

Instr(op, p, r, ls) == [op |-> op, p |-> p, r |-> r, ls |-> ls]

NoControl == [StackSize |-> 0, Unreachable |-> FALSE, JumpBlock |-> NoBlock,
              NextBlock |-> NoBlock, ElseBlock |-> NoBlock, Args |-> <<>>,
              Type |-> <<0, 0>>, ReturnPHI |-> <<>>]

NoGhost == [cEntry |-> 0, cDead |-> FALSE, cFlush |-> FALSE]

NoFrame == [kind |-> "none", p |-> 0, r |-> 0, height |-> 0,
            unreachable |-> FALSE, brs |-> 0, arms |-> 0, g |-> NoGhost]

NoOp == [I |-> Instr("none", 0, 0, <<>>), was |-> FALSE, h0 |-> 0,
         frame |-> NoFrame, d0 |-> 0]

\* ------------------------------------------------------------------ states
\* FunctionCompiler's constructor: the entry block, the counter slots.
NewFunction(c) ==
  [Stack |-> <<>>, ControlStack |-> <<>>,
   TrapBB |-> [e \in ErrKinds |-> NoBlock], Requested |-> {},
   IsUnreachable |-> FALSE, Interruptible |-> c[3],
   LocalInstrCount |-> c[1], LocalGas |-> c[2],
   Blocks |-> << [name |-> "entry", term |-> 0] >>,
   InsertBlock |-> 1, PHIs |-> <<>>, Emitted |-> <<>>,
   NInstr |-> 0, FRet |-> c[4], ok |-> TRUE]

\* No caller is in compile(Module): the mutex is free, Context is null.
NoCaller == 0
NoCompiler == [Mutex |-> NoCaller, Context |-> NoCaller, call |-> <<>>]

\* Nothing runs while a function is translated.
NoRun == [kind |-> "none", GasLimit |-> 0, gas |-> 0, gas0 |-> 0, th |-> <<>>]

Init ==
  /\ \E c \in Configs : fc = NewFunction(c)
  /\ val = [h |-> 0, ctrl |-> <<>>]
  /\ lastOp = NoOp
  /\ left = NoControl
  /\ tpc = "start"
  /\ stream \in {"control", "any"}
  /\ rt = NoRun
  /\ cc = NoCompiler

\* compile(Code, Type) up to the loop over the instructions.
beginCompile(s) ==
  LET s1 == create(s, "ret")
  IN enterBlock(s1, newBB(s1), NoBlock, NoBlock, <<>>, <<0, s.FRet>>, <<>>)

CompileBegin ==
  /\ tpc = "start"
  /\ fc' = beginCompile(fc)
  /\ val' = [h |-> 0,
             ctrl |-> << [kind |-> "func", p |-> 0, r |-> fc.FRet,
                          height |-> 0, unreachable |-> FALSE,
                          brs |-> 0, arms |-> 0, g |-> NoGhost] >>]
  /\ tpc' = "body"
  /\ UNCHANGED <<lastOp, left, stream, rt, cc>>

\* One instruction of a validated stream goes through the dispatch loop.
Translate(I) ==
  /\ tpc = "body"
  /\ val.ctrl # <<>>
  /\ IF stream = "control"
     THEN fc.NInstr < MaxInstrs /\ I.op \in ControlStreamOps
     ELSE fc.NInstr < MaxOpInstrs
  /\ Valid(val, I)
  /\ LET D == Dispatch([fc EXCEPT !.Emitted = <<>>], I, left)
         g == [cEntry |-> Len(fc.Stack) -
                            (IF I.op = "If" /\ ~isUnreachable(fc) THEN 1 ELSE 0),
               cDead |-> isUnreachable(fc),
               cFlush |-> HasOp(D.fc.Emitted, "instr.flush")]
         v == VStep(val, I, g)
     IN /\ v.h <= MaxHeight
        /\ Len(v.ctrl) <= MaxDepth
        /\ val' = v
        /\ fc' = D.fc
        /\ left' = D.Entry
        /\ lastOp' = [I |-> I, was |-> isUnreachable(fc), h0 |-> Len(fc.Stack),
                      frame |-> VTop(val), d0 |-> Len(fc.ControlStack)]
  /\ UNCHANGED <<tpc, stream, rt, cc>>

TrBlock == \E bt \in BlockTypes : Translate(Instr("Block", bt[1], bt[2], <<>>))
TrLoop == \E bt \in LoopTypes : Translate(Instr("Loop", bt[1], bt[2], <<>>))
TrIf == \E bt \in BlockTypes : Translate(Instr("If", bt[1], bt[2], <<>>))
TrElse == Translate(Instr("Else", 0, 0, <<>>))
TrEnd == Translate(Instr("End", 0, 0, <<>>))
TrBr == \E l \in Labels : Translate(Instr("Br", 0, 0, <<l>>))
TrBrIf == \E l \in Labels : Translate(Instr("Br_if", 0, 0, <<l>>))
TrBrTable ==
  \E l \in Labels, d \in Labels : Translate(Instr("Br_table", 0, 0, <<l, d>>))
TrBrOn ==
  \E op \in {"Br_on_null", "Br_on_non_null"}, l \in Labels :
    Translate(Instr(op, 0, 0, <<l>>))
TrReturn == Translate(Instr("Return", 0, 0, <<>>))
TrUnreachable == Translate(Instr("Unreachable", 0, 0, <<>>))
TrPlain ==
  \E op \in {"Nop", "Const", "Drop"} : Translate(Instr(op, 0, 0, <<>>))
TrDivRem ==
  \E op \in {"Div_s", "Div_u", "Rem_s", "Rem_u"} :
    Translate(Instr(op, 0, 0, <<>>))
TrAtomic ==
  \E op \in AtomicOps :
    Translate(Instr(op, 0, 0, <<0, 2, 32>>))
TrCall ==
  \E op \in CallOps, ft \in CalleeTypes : Translate(Instr(op, ft[1], ft[2], <<>>))

\* The trap epilogue of compile(Code, Type), one block after the other.
RECURSIVE trapEpilogue(_, _)
trapEpilogue(s, Errors) ==
  IF Errors = {} THEN s
  ELSE LET Error == CHOOSE e \in Errors : TRUE
           s1 == updateGasAtTrap(
                   updateInstrCount(positionAtEnd(s, s.TrapBB[Error])))
           s2 == emit(emitTo(s1, "call.trap", <<>>, Error), "unreachable")
       IN trapEpilogue(s2, Errors \ {Error})

\* compile(Code, Type) after the loop: the return, then the trap blocks.
finishCompile(s) ==
  LET s1 == compileReturn([s EXCEPT !.ok = @ /\ s.ControlStack = <<>>])
  IN trapEpilogue(s1, {e \in ErrKinds : s1.TrapBB[e] # NoBlock})

\* fc.Emitted is the code the last step emitted.
CompileFinish ==
  /\ tpc = "body"
  /\ val.ctrl = <<>>
  /\ fc' = finishCompile([fc EXCEPT !.Emitted = <<>>])
  /\ tpc' = "done"
  /\ UNCHANGED <<val, lastOp, left, stream, rt, cc>>

\* compile(Instrs): the loop over the instructions.
RECURSIVE compileInstrs(_, _)
compileInstrs(s, Instrs) ==
  IF Instrs = <<>> THEN s
  ELSE compileInstrs(Dispatch(s, Head(Instrs), NoControl).fc, Tail(Instrs))

\* The whole of the code of the function with flags c and body Instrs.
Whole(c, Instrs) ==
  finishCompile(compileInstrs(beginCompile(NewFunction(c)), Instrs))

Next ==
  \/ CompileBegin
  \/ TrBlock \/ TrLoop \/ TrIf \/ TrElse \/ TrEnd
  \/ TrBr \/ TrBrIf \/ TrBrTable \/ TrBrOn \/ TrReturn \/ TrUnreachable
  \/ TrPlain \/ TrDivRem \/ TrAtomic \/ TrCall
  \/ CompileFinish

Spec == Init /\ [][Next]_vars

\* ================================================ running the emitted code
\* The machine runs the code of one function (fc, which no longer changes)
\* on one or more threads. Its integers are Bits wide: the i32 and i64 of the
\* source, scaled down, with the same wrap-around.
Bits == 3
Mod == 2 ^ Bits
Ints == 0..(Mod - 1)
IntMin == 2 ^ (Bits - 1)
IntMinusOne == Mod - 1

Signed(x) == IF x >= IntMin THEN x - Mod ELSE x
Abs(z) == IF z < 0 THEN 0 - z ELSE z

\* LLVM's sdiv and srem round the quotient toward zero.
SDiv(x, y) ==
  LET q == Abs(Signed(x)) \div Abs(Signed(y))
  IN (IF (Signed(x) < 0) # (Signed(y) < 0) THEN 0 - q ELSE q) % Mod

SRem(x, y) ==
  LET m == Abs(Signed(x)) % Abs(Signed(y))
  IN (IF Signed(x) < 0 THEN 0 - m ELSE m) % Mod

\* The registers of a thread: the operands the function is run on and the
\* values its code has computed.
NoRegs == [lhs |-> 0, rhs |-> 0, res |-> 0, cond |-> 0,
           addr |-> 0, Offset |-> 0, Value |-> 0, accessed |-> FALSE,
           cost |-> 0, local |-> 0, acc |-> 0,
           Cost |-> 0, Gas |-> 0, PHIOldGas |-> 0, NewGas |-> 0,
           RGas |-> 0, Succeed |-> FALSE, StopToken |-> 0, polls |-> 0,
           fp |-> [nan |-> FALSE, h |-> 0],
           Trunc |-> [nan |-> FALSE, h |-> 0], Cmp |-> FALSE,
           Ref |-> 0, FPtr |-> 0, did |-> <<>>,
           count |-> 0, executed |-> 0]

\* A thread at the entry of the function.
NewThread(r) ==
  [bb |-> 1, idx |-> 1, from |-> NoBlock, st |-> "run", trap |-> "",
   branches |-> 0, r |-> r]

\* The instructions of block b, in order.
Code(b) ==
  LET in(e) == e.bb = b IN SelectSeq(fc.Emitted, in)

Threads == DOMAIN rt.th
Cur(t) == rt.th[t]
Fetch(t) == Code(Cur(t).bb)[Cur(t).idx]

At(t, ops) ==
  /\ Cur(t).st = "run"
  /\ Cur(t).idx <= Len(Code(Cur(t).bb))
  /\ Fetch(t).op \in ops

\* The thread moves on to its next instruction with registers r.
Step(t, r) == [rt EXCEPT !.th[t].idx = @ + 1, !.th[t].r = r]

\* The condition of a conditional branch.
Holds(arg, r) ==
  CASE arg = "rhs!=0" -> r.rhs # 0
    [] arg = "notoverflow" -> r.lhs # IntMin \/ r.rhs # IntMinusOne
    [] arg = "cond!=0" -> r.cond # 0
    [] arg = "aligned" -> r.Value = 0
    [] arg = "ule" -> r.NewGas <= rt.GasLimit
    [] arg = "succeed" -> r.Succeed
    [] arg = "eq0" -> r.StopToken = 0
    [] arg = "fcmp" -> r.Cmp
    [] arg = "ref!=0" -> r.Ref # 0
    [] arg = "notnull" -> r.FPtr # 0

\* The branches a thread has taken are counted up to MaxBranches.
MaxBranches == 4

\* br and condbr.
RunBranch(t) ==
  /\ At(t, {"br", "condbr"})
  /\ LET I == Fetch(t)
         to == IF I.op = "br" \/ Holds(I.arg, Cur(t).r) THEN I.to[1]
               ELSE I.to[2]
     IN rt' = [rt EXCEPT !.th[t].from = Cur(t).bb, !.th[t].bb = to,
                         !.th[t].idx = 1,
                         !.th[t].branches = IF @ < MaxBranches THEN @ + 1 ELSE @]
  /\ UNCHANGED tvars

\* sdiv, udiv, srem and urem. A zero divisor, and INT_MIN by -1 for the
\* signed two, are undefined: any value, or the fault of the processor.
RunDivRem(t) ==
  /\ At(t, {"sdiv", "udiv", "srem", "urem"})
  /\ LET op == Fetch(t).op
         r == Cur(t).r
         undefined == \/ r.rhs = 0
                      \/ /\ op \in {"sdiv", "srem"}
                         /\ r.lhs = IntMin /\ r.rhs = IntMinusOne
     IN IF undefined
        THEN \/ \E x \in Ints : rt' = Step(t, [r EXCEPT !.res = x])
             \/ rt' = [rt EXCEPT !.th[t].st = "fault"]
        ELSE rt' = Step(t, [r EXCEPT !.res =
               CASE op = "sdiv" -> SDiv(r.lhs, r.rhs)
                 [] op = "udiv" -> r.lhs \div r.rhs
                 [] op = "srem" -> SRem(r.lhs, r.rhs)
                 [] op = "urem" -> r.lhs % r.rhs])
  /\ UNCHANGED tvars

\* The PHI of rem_s: the srem from its first block, 0 from any other.
RunPhi(t) ==
  /\ At(t, {"phi"})
  /\ Fetch(t).arg = "srem,0"
  /\ rt' = Step(t, [Cur(t).r EXCEPT !.res =
                      IF Cur(t).from = Fetch(t).to[1] THEN @ ELSE 0])
  /\ UNCHANGED tvars

\* The call of the trap helper does not return.
RunTrap(t) ==
  /\ At(t, {"call.trap"})
  /\ rt' = [rt EXCEPT !.th[t].st = "trap", !.th[t].trap = Fetch(t).arg]
  /\ UNCHANGED tvars

RunRet(t) ==
  /\ At(t, {"ret"})
  /\ rt' = [rt EXCEPT !.th[t].st = "end"]
  /\ UNCHANGED tvars

\* ------------------------------------------------- division and remainder
DivRemOps == {"Div_s", "Div_u", "Rem_s", "Rem_u"}

\* (i32.const lhs) (i32.const rhs) (op) end, with one result.
DivFunction(op) ==
  Whole(<<FALSE, FALSE, FALSE, 1>>,
        <<Instr("Const", 0, 0, <<>>), Instr("Const", 0, 0, <<>>),
          Instr(op, 0, 0, <<>>), Instr("End", 0, 0, <<>>)>>)

InitDiv ==
  /\ \E op \in DivRemOps :
       /\ fc = DivFunction(op)
       /\ lastOp = [NoOp EXCEPT !.I = Instr(op, 0, 0, <<>>)]
  /\ \E lhs \in Ints, rhs \in Ints :
       rt = [kind |-> "div", GasLimit |-> 0, gas |-> 0, gas0 |-> 0,
             th |-> << NewThread([NoRegs EXCEPT !.lhs = lhs, !.rhs = rhs]) >>]
  /\ val = [h |-> 0, ctrl |-> <<>>]
  /\ left = NoControl
  /\ tpc = "run"
  /\ stream = "any"
  /\ cc = NoCompiler

NextDiv ==
  RunBranch(1) \/ RunDivRem(1) \/ RunPhi(1) \/ RunTrap(1) \/ RunRet(1)

SpecDiv == InitDiv /\ [][NextDiv]_vars

\* ------------------------------------------------------------- atomics
\* The bitwise and of x and y, both below 2 ^ n.
RECURSIVE BitAnd(_, _, _)
BitAnd(x, y, n) ==
  IF n = 0 THEN 0
  ELSE 2 * BitAnd(x \div 2, y \div 2, n - 1) + (x % 2) * (y % 2)

\* The address computation of an atomic operator: the zext of the address to
\* the wide integer, the add of MemoryOffset, the and with BWMask.
RunAddress(t) ==
  /\ At(t, {"zext", "add", "and"})
  /\ LET I == Fetch(t)
         r == Cur(t).r
     IN rt' = Step(t,
          CASE I.op = "zext" -> [r EXCEPT !.Offset = r.addr]
            [] I.op = "add" ->
                 [r EXCEPT !.Offset = (@ + I.to[1]) % (2 ^ (2 * Bits))]
            [] I.op = "and" ->
                 [r EXCEPT !.Value = BitAnd(r.Offset, I.to[1], 2 * Bits)])
  /\ UNCHANGED tvars

AccessOps == {"atomic.load", "atomic.store", "atomicrmw", "cmpxchg",
              "call.intrinsic"}

\* The memory access, or the call of the wait or notify intrinsic.
RunAccess(t) ==
  /\ At(t, AccessOps)
  /\ rt' = Step(t, [Cur(t).r EXCEPT !.accessed = TRUE])
  /\ UNCHANGED tvars

AtomicAccessOps == AtomicOps \ {"Atomic_fence"}

RECURSIVE Repeat(_, _)
Repeat(I, n) == IF n = 0 THEN <<>> ELSE <<I>> \o Repeat(I, n - 1)

\* The operands as constants, the operator I, a drop of its result if it has
\* one, end.
AtomicFunction(I) ==
  Whole(<<FALSE, FALSE, FALSE, 0>>,
        Repeat(Instr("Const", 0, 0, <<>>), Sig(I)[1]) \o <<I>>
        \o Repeat(Instr("Drop", 0, 0, <<>>), Sig(I)[2])
        \o <<Instr("End", 0, 0, <<>>)>>)

BitWidths == {8, 16, 32, 64}
\* The alignment immediates validation admits: up to the natural alignment.
Alignments(BitWidth) == {a \in 0..3 : 2 ^ a <= BitWidth \div 8}

InitAtomic ==
  /\ \E op \in AtomicAccessOps, MemoryOffset \in Ints, BitWidth \in BitWidths :
       \E Alignment \in Alignments(BitWidth) :
         LET I == Instr(op, 0, 0, <<MemoryOffset, Alignment, BitWidth>>)
         IN fc = AtomicFunction(I) /\ lastOp = [NoOp EXCEPT !.I = I]
  /\ \E addr \in Ints :
       rt = [kind |-> "atomic", GasLimit |-> 0, gas |-> 0, gas0 |-> 0,
             th |-> << NewThread([NoRegs EXCEPT !.addr = addr]) >>]
  /\ val = [h |-> 0, ctrl |-> <<>>]
  /\ left = NoControl
  /\ tpc = "run"
  /\ stream = "any"
  /\ cc = NoCompiler

NextAtomic ==
  RunAddress(1) \/ RunBranch(1) \/ RunAccess(1) \/ RunTrap(1) \/ RunRet(1)

SpecAtomic == InitAtomic /\ [][NextAtomic]_vars

\* ----------------------------------------------------------------- gas
\* The instructions on the counter slot of the thread: the add of the cost
\* of an instruction in the main loop, and in updateGas the load of the
\* slot, the PHI of the old gas (the loaded gas from CurrBB, the gas the
\* compare-exchange met from OkBB), the add and the reset of the slot.
RunGasLocal(t) ==
  /\ At(t, {"gas.inc", "gas.load_local", "phi", "gas.add", "gas.reset"})
  /\ LET I == Fetch(t)
         r == Cur(t).r
     IN /\ I.op = "phi" => I.arg = "Gas,RGas"
        /\ rt' = Step(t,
             CASE I.op = "gas.inc" ->
                    [r EXCEPT !.local = (@ + r.cost) % Mod, !.acc = @ + r.cost]
               [] I.op = "gas.load_local" -> [r EXCEPT !.Cost = r.local]
               [] I.op = "phi" ->
                    [r EXCEPT !.PHIOldGas = IF Cur(t).from = I.to[1]
                                            THEN r.Gas ELSE r.RGas]
               [] I.op = "gas.add" ->
                    [r EXCEPT !.NewGas = (r.PHIOldGas + r.Cost) % Mod]
               [] I.op = "gas.reset" -> [r EXCEPT !.local = 0])
  /\ UNCHANGED tvars

\* A faulty compare-exchange, which stores without comparing.
AtomicCmpXchg_Blind(cell, Cmp, New) ==
  {[cell |-> New, old |-> cell, ok |-> TRUE]}

\* The outcomes of a weak compare-exchange on a cell: it may fail though
\* the cell holds Cmp.
AtomicCmpXchg(cell, Cmp, New) ==
  {[cell |-> cell, old |-> cell, ok |-> FALSE]}
  \cup (IF cell = Cmp THEN {[cell |-> New, old |-> cell, ok |-> TRUE]}
        ELSE {})

\* The instructions on the shared gas cell: the load and the compare-exchange
\* of updateGas, the atomic add of updateGasAtTrap.
RunGasShared(t) ==
  /\ At(t, {"gas.load", "gas.cmpxchg", "gas.atomic_add"})
  /\ LET I == Fetch(t)
         r == Cur(t).r
     IN CASE I.op = "gas.load" -> rt' = Step(t, [r EXCEPT !.Gas = rt.gas])
          [] I.op = "gas.cmpxchg" ->
               \E o \in AtomicCmpXchg(rt.gas, r.PHIOldGas, r.NewGas) :
                 rt' = [Step(t, [r EXCEPT !.RGas = o.old, !.Succeed = o.ok])
                          EXCEPT !.gas = o.cell]
          [] I.op = "gas.atomic_add" ->
               rt' = [Step(t, r) EXCEPT !.gas = (@ + r.local) % Mod]
  /\ UNCHANGED tvars

\* The comparison in front of a conditional branch computes its condition.
RunCompare(t) ==
  /\ At(t, {"icmp"})
  /\ rt' = Step(t, Cur(t).r)
  /\ UNCHANGED tvars

GasFlags == <<FALSE, TRUE, FALSE, 0>>

\* The function of one `end`: its return flushes the cost of the `end`.
GasFunction == Whole(GasFlags, <<Instr("End", 0, 0, <<>>)>>)

\* One thread, every gas g, cost c and limit L.
InitGas ==
  /\ fc = GasFunction
  /\ \E g \in Ints, c \in Ints, L \in Ints :
       rt = [kind |-> "gas", GasLimit |-> L, gas |-> g, gas0 |-> g,
             th |-> << NewThread([NoRegs EXCEPT !.cost = c]) >>]
  /\ val = [h |-> 0, ctrl |-> <<>>]
  /\ lastOp = NoOp
  /\ left = NoControl
  /\ tpc = "run"
  /\ stream = "any"
  /\ cc = NoCompiler

NextGas ==
  RunGasLocal(1) \/ RunGasShared(1) \/ RunBranch(1) \/ RunTrap(1)
    \/ RunRet(1)

SpecGas == InitGas /\ [][NextGas]_vars

\* (i32.const cond) (br_if 0) (unreachable) end: a thread whose cond is not 0
\* returns and flushes its cost by updateGas, a thread whose cond is 0
\* reaches the trap block and flushes there.
GasFunctionMT ==
  Whole(GasFlags,
        <<Instr("Const", 0, 0, <<>>), Instr("Br_if", 0, 0, <<0>>),
          Instr("Unreachable", 0, 0, <<>>), Instr("End", 0, 0, <<>>)>>)

\* The number of threads, the highest cost of an instruction and the
\* highest gas at the start.
NThreads == 2
MaxCost == 2
MaxGas0 == 1

InitGasMT ==
  /\ fc = GasFunctionMT
  /\ \E g \in 0..MaxGas0, L \in {Mod \div 2, Mod - 1} :
       \E cs \in [1..NThreads -> 0..MaxCost], cds \in [1..NThreads -> 0..1] :
         rt = [kind |-> "gasmt", GasLimit |-> L, gas |-> g, gas0 |-> g,
               th |-> [t \in 1..NThreads |->
                         NewThread([NoRegs EXCEPT !.cost = cs[t],
                                                  !.cond = cds[t]])]]
  /\ val = [h |-> 0, ctrl |-> <<>>]
  /\ lastOp = NoOp
  /\ left = NoControl
  /\ tpc = "run"
  /\ stream = "any"
  /\ cc = NoCompiler

NextGasMT ==
  \/ \E t \in Threads : RunGasLocal(t)
  \/ \E t \in Threads : RunGasShared(t)
  \/ \E t \in Threads : RunCompare(t)
  \/ \E t \in Threads : RunBranch(t)
  \/ \E t \in Threads : RunTrap(t)
  \/ \E t \in Threads : RunRet(t)

SpecGasMT == InitGasMT /\ [][NextGasMT]_vars

\* ------------------------------------------------------- the stop token
\* The atomicrmw xchg of checkStop: the thread reads the stop-token cell and
\* stores 0 into it in one step. The polls of a thread are counted as its
\* branches are.
\* A faulty exchange, which reads the token and leaves it in the cell.
RunStop_Load(t) ==
  /\ At(t, {"stop.xchg"})
  /\ rt' = Step(t, [Cur(t).r EXCEPT
                      !.StopToken = rt.stop,
                      !.polls = IF @ < MaxBranches THEN @ + 1 ELSE @])
  /\ UNCHANGED tvars

RunStop(t) ==
  /\ At(t, {"stop.xchg"})
  /\ rt' = [Step(t, [Cur(t).r EXCEPT
                       !.StopToken = rt.stop,
                       !.polls = IF @ < MaxBranches THEN @ + 1 ELSE @])
             EXCEPT !.stop = 0]
  /\ UNCHANGED tvars

\* The stores of the embedder into the stop-token cell while the function
\* runs: at most MaxWrites, each of a value that is not 0.
MaxWrites == 2

WriteStop ==
  /\ rt.kind = "stop"
  /\ rt.writes < MaxWrites
  /\ \E x \in {1, Mod - 1} : rt' = [rt EXCEPT !.stop = x, !.writes = @ + 1]
  /\ UNCHANGED tvars

\* loop (br 0) end end, which never leaves the loop, and
\* loop (i32.const cond) (br_if 0) end end, which leaves it when cond is 0.
StopFunction(Interruptible, I) ==
  Whole(<<FALSE, FALSE, Interruptible, 0>>,
        <<Instr("Loop", 0, 0, <<>>)>>
        \o (IF I.op = "Br_if" THEN <<Instr("Const", 0, 0, <<>>)>> ELSE <<>>)
        \o <<I, Instr("End", 0, 0, <<>>), Instr("End", 0, 0, <<>>)>>)

InitStop ==
  /\ \E Interruptible \in BOOLEAN, op \in {"Br", "Br_if"} :
       LET I == Instr(op, 0, 0, <<0>>)
       IN fc = StopFunction(Interruptible, I) /\ lastOp = [NoOp EXCEPT !.I = I]
  /\ \E x \in {0, 1}, cond \in {0, 1} :
       rt = [kind |-> "stop", GasLimit |-> 0, gas |-> 0, gas0 |-> 0,
             th |-> << NewThread([NoRegs EXCEPT !.cond = cond]) >>,
             stop |-> x, writes |-> 0]
  /\ val = [h |-> 0, ctrl |-> <<>>]
  /\ left = NoControl
  /\ tpc = "run"
  /\ stream = "any"
  /\ cc = NoCompiler

\* The steps of the thread that runs the function.
NextStopThread ==
  RunStop(1) \/ RunCompare(1) \/ RunBranch(1) \/ RunTrap(1) \/ RunRet(1)

NextStop == NextStopThread \/ WriteStop

\* The thread is scheduled again and again; the embedder need never write.
SpecStop == InitStop /\ [][NextStop]_vars /\ WF_vars(NextStopThread)

\* ---------------------------------------------------------- truncations
\* llvm.trunc: toward zero; of a NaN, the NaN.
FTrunc(x) ==
  [x EXCEPT !.h = IF @ < 0 THEN 0 - 2 * ((0 - @) \div 2) ELSE 2 * (@ \div 2)]

\* fcmp: an ordered predicate is false when an operand is a NaN.
FCmp(pred, x, Fps) ==
  /\ ~x.nan
  /\ CASE pred = "ord" -> TRUE
       [] pred = "oge" -> x.h >= Fps[1].h
       [] pred = "ole" -> x.h <= Fps[1].h
       [] pred = "olt" -> x.h < Fps[1].h

\* The instructions of the truncations. fptosi and fptoui of a NaN or of a
\* number outside the integer type give a poison value: any value.
RunFloat(t) ==
  /\ At(t, {"fcmp", "trunc", "fptosi", "fptoui", "phi"})
  /\ LET I == Fetch(t)
         r == Cur(t).r
     IN /\ I.op = "phi" => I.arg = "sat"
        /\ CASE I.op = "fcmp" ->
                  rt' = Step(t, [r EXCEPT !.Cmp =
                          FCmp(I.arg, IF I.arg = "ord" THEN r.fp ELSE r.Trunc,
                               I.to)])
             [] I.op = "trunc" -> rt' = Step(t, [r EXCEPT !.Trunc = FTrunc(r.fp)])
             [] I.op \in {"fptosi", "fptoui"} ->
                  LET N == 2 ^ I.to[1]
                      T == r.Trunc.h \div 2
                      lo == IF I.op = "fptosi" THEN 0 - (N \div 2) ELSE 0
                      hi == IF I.op = "fptosi" THEN (N \div 2) - 1 ELSE N - 1
                  IN IF ~r.Trunc.nan /\ lo <= T /\ T <= hi
                     THEN rt' = Step(t, [r EXCEPT !.res = T % N])
                     ELSE \E x \in 0..(N - 1) :
                            rt' = Step(t, [r EXCEPT !.res = x, !.accessed = TRUE])
             [] I.op = "phi" ->
                  LET inc == CHOOSE j \in 1..Len(I.to) : I.to[j].bb = Cur(t).from
                  IN rt' = Step(t, [r EXCEPT !.res = IF I.to[inc].const
                                                     THEN I.to[inc].c ELSE @])
  /\ UNCHANGED tvars

TruncOps == {"Trunc_s", "Trunc_u", "Trunc_sat_s", "Trunc_sat_u"}

\* The widths of i32 and i64 and the mantissa widths of f32 and f64, scaled
\* down with their order kept: 24 < 31 < 32 <= 53 < 63 < 64.
IntWidths == {4, 7}
FPWidths == {2, 5}

\* The numbers of a format, in halves, up to four times the greatest
\* integer, and the infinities (numbers beyond every limit); the NaN.
FPValues(FPWidth) ==
  LET fits(h) == \E e \in 0..10 : h % (2 ^ e) = 0 /\ h \div (2 ^ e) < 2 ^ FPWidth
  IN {[nan |-> TRUE, h |-> 0]}
     \cup {[nan |-> FALSE, h |-> h] : h \in {x \in 0..(2 ^ 10) : fits(x)}}
     \cup {[nan |-> FALSE, h |-> 0 - h] : h \in {x \in 0..(2 ^ 10) : fits(x)}}

\* (f.const x) (op) end, with one result.
TruncFunction(I) ==
  Whole(<<FALSE, FALSE, FALSE, 1>>,
        <<Instr("Const", 0, 0, <<>>), I, Instr("End", 0, 0, <<>>)>>)

InitTrunc ==
  /\ \E op \in TruncOps, BitWidth \in IntWidths, FPWidth \in FPWidths :
       LET I == Instr(op, 0, 0, <<BitWidth, FPWidth>>)
       IN /\ fc = TruncFunction(I)
          /\ lastOp = [NoOp EXCEPT !.I = I]
          /\ \E x \in FPValues(FPWidth) :
               rt = [kind |-> "trunc", GasLimit |-> 0, gas |-> 0, gas0 |-> 0,
                     th |-> << NewThread([NoRegs EXCEPT !.fp = x]) >>]
  /\ val = [h |-> 0, ctrl |-> <<>>]
  /\ left = NoControl
  /\ tpc = "run"
  /\ stream = "any"
  /\ cc = NoCompiler

NextTrunc == RunFloat(1) \/ RunBranch(1) \/ RunTrap(1) \/ RunRet(1)

SpecTrunc == InitTrunc /\ [][NextTrunc]_vars

\* ============================================== Compiler::compile(Module)
\* Callers, numbered from 1, call compile(Module) on one Compiler. Mutex
\* holds the caller that owns it, Context the caller whose CompileContext it
\* points to. Of each call: pc, the flag of its module, its result, the
\* sections it has emitted into its own LLModule (each with the context the
\* emission went through) and whether it has ever owned the mutex.
NCallers == 2
Callers == 1..NCallers

SectionOrder == <<"Type", "Import", "Global", "Memory", "Table", "Function",
                  "Export">>

NewCall(Validated) ==
  [pc |-> "check", Validated |-> Validated, ret |-> "", Sections |-> <<>>,
   held |-> FALSE]

\* A faulty check, which lets every module through.
checkValidated_Skip(Validated) == [pc |-> "lock", ret |-> ""]

\* if (!Module.getIsValidated()) return Unexpect(NotValidated);
checkValidated(Validated) ==
  IF ~Validated THEN [pc |-> "done", ret |-> "NotValidated"]
  ELSE [pc |-> "lock", ret |-> ""]

\* A faulty lock, which never waits.
canLock_Always(c) == TRUE

\* std::unique_lock Lock(Mutex) goes on when the mutex is free.
canLock(c) == c.Mutex = NoCaller

CallAt(p, pc) == cc.call[p].pc = pc

CheckValidated(p) ==
  /\ CallAt(p, "check")
  /\ LET r == checkValidated(cc.call[p].Validated)
     IN cc' = [cc EXCEPT !.call[p].pc = r.pc, !.call[p].ret = r.ret]
  /\ UNCHANGED <<fc, val, lastOp, left, tpc, stream, rt>>

LockMutex(p) ==
  /\ CallAt(p, "lock")
  /\ canLock(cc)
  /\ cc' = [cc EXCEPT !.Mutex = p, !.call[p].held = TRUE,
                      !.call[p].pc = "install"]
  /\ UNCHANGED <<fc, val, lastOp, left, tpc, stream, rt>>

\* RAIICleanup's constructor: Context = &NewContext.
InstallContext(p) ==
  /\ CallAt(p, "install")
  /\ cc' = [cc EXCEPT !.Context = p, !.call[p].pc = "sections"]
  /\ UNCHANGED <<fc, val, lastOp, left, tpc, stream, rt>>

\* compile(section): the next section is emitted through *Context.
CompileSection(p) ==
  /\ CallAt(p, "sections")
  /\ LET n == Len(cc.call[p].Sections) + 1
     IN cc' = [cc EXCEPT
                 !.call[p].Sections = Append(@, <<SectionOrder[n], cc.Context>>),
                 !.call[p].pc = IF n = Len(SectionOrder) THEN "optimize"
                                ELSE "sections"]
  /\ UNCHANGED <<fc, val, lastOp, left, tpc, stream, rt>>

\* Verification, optimisation and the intrinsics table: the lookup of the
\* target may fail, and the call then returns IllegalPath.
VerifyOptimize(p) ==
  /\ CallAt(p, "optimize")
  /\ \E ret \in {"Data", "IllegalPath"} :
       cc' = [cc EXCEPT !.call[p].ret = ret, !.call[p].pc = "cleanup"]
  /\ UNCHANGED <<fc, val, lastOp, left, tpc, stream, rt>>

\* The destructors at the return, in reverse order of construction:
\* ~RAIICleanup sets Context to null, then ~unique_lock frees the mutex.
Cleanup(p) ==
  /\ CallAt(p, "cleanup")
  /\ cc' = [cc EXCEPT !.Context = NoCaller, !.call[p].pc = "unlock"]
  /\ UNCHANGED <<fc, val, lastOp, left, tpc, stream, rt>>

Unlock(p) ==
  /\ CallAt(p, "unlock")
  /\ cc' = [cc EXCEPT !.Mutex = NoCaller, !.call[p].pc = "done"]
  /\ UNCHANGED <<fc, val, lastOp, left, tpc, stream, rt>>

InitModule ==
  /\ \E vs \in [Callers -> BOOLEAN] :
       cc = [Mutex |-> NoCaller, Context |-> NoCaller,
             call |-> [p \in Callers |-> NewCall(vs[p])]]
  /\ fc = NewFunction(<<FALSE, FALSE, FALSE, 0>>)
  /\ val = [h |-> 0, ctrl |-> <<>>]
  /\ lastOp = NoOp
  /\ left = NoControl
  /\ tpc = "module"
  /\ stream = "any"
  /\ rt = NoRun

NextModule ==
  \/ \E p \in Callers : CheckValidated(p)
  \/ \E p \in Callers : LockMutex(p)
  \/ \E p \in Callers : InstallContext(p)
  \/ \E p \in Callers : CompileSection(p)
  \/ \E p \in Callers : VerifyOptimize(p)
  \/ \E p \in Callers : Cleanup(p)
  \/ \E p \in Callers : Unlock(p)

SpecModule == InitModule /\ [][NextModule]_vars

\* ====================================================== the properties
\* ------------------------------------------------------------------- C1
\* The frame the last `end` closed, as the validator saw it.
Closed == lastOp.frame

AfterEnd == tpc = "body" /\ lastOp.I.op = "End"

\* C1: immediately after the `end` that closes a control frame (block, loop,
\* if with or without else, the function body), the operand stack is as high
\* as the StackSize enterBlock recorded for the frame plus the number of
\* results of its block type. That StackSize is the height at the entry
\* minus the number of parameters when the frame was opened in reachable
\* code, and the height at the entry itself when it was opened in an
\* unreachable frame, where no parameter is popped.
C1_EndHeight ==
  AfterEnd =>
    /\ Len(fc.Stack) = left.StackSize + left.Type[2]
    /\ left.Type = <<Closed.p, Closed.r>>
    /\ left.StackSize =
         Closed.g.cEntry - (IF Closed.g.cDead THEN 0 ELSE Closed.p)

\* An `end` closing a frame with a parameter and a result, entered in
\* reachable code, one of whose arms ended unreachable.
C1_Witness ==
  /\ AfterEnd
  /\ Closed.kind \in {"block", "loop", "if", "else"}
  /\ Closed.p = 1 /\ Closed.r = 1
  /\ ~Closed.g.cDead
  /\ lastOp.was
  /\ Len(fc.Stack) = Closed.g.cEntry

\* C1 as stated: the height after `end` is the height at the entry minus the
\* number of parameters plus the number of results, for every frame.
C1_AsStated ==
  AfterEnd => Len(fc.Stack) = Closed.g.cEntry - Closed.p + Closed.r

\* ------------------------------------------------------------------- C2
BlockIds == 1..Len(fc.Blocks)

Named(name) == {b \in BlockIds : fc.Blocks[b].name = name}

\* C2: when compile(Code, Type) has finished, every basic block it created
\* has exactly one terminator.
C2_OneTerminator ==
  tpc = "done" => \A b \in BlockIds : fc.Blocks[b].term = 1

\* A finished function with a dead continuation block, a block made inside
\* an unreachable frame, gas blocks and a trap block.
C2_Witness ==
  /\ tpc = "done"
  /\ Named("br.end") # {} /\ Named("trap") # {} /\ Named("gas_end") # {}
  /\ \E b \in Named("block") \cup Named("then") \cup Named("loop") :
       \E d \in Named("br.end") \cup Named("unreachable.end") : d < b

\* ------------------------------------------------------------------- C3
Cached == {e \in ErrKinds : fc.TrapBB[e] # NoBlock}

\* The instructions of E that went into block b, in order.
CodeIn(E, b) ==
  LET sel(e) == e.bb = b
      code == SelectSeq(E, sel)
  IN [j \in 1..Len(code) |-> <<code[j].op, code[j].arg>>]

\* The epilogue of the trap block of Error: the flush of each counter the
\* function keeps, the call of the trap helper with Error, unreachable.
Epilogue(Error) ==
  (IF fc.LocalInstrCount THEN << <<"instr.flush", "">>, <<"instr.reset", "">> >>
   ELSE <<>>)
  \o (IF fc.LocalGas THEN << <<"gas.atomic_add", "">> >> ELSE <<>>)
  \o << <<"call.trap", Error>>, <<"unreachable", "">> >>

\* C3: when the translation of a function ends there is exactly one trap
\* block per error kind requested and none for a kind never requested; no
\* trap block is given code before the end, and at the end each is given one
\* epilogue: the flush of the instruction counter and of the gas counter
\* (each where the function keeps the counter), the call of the trap helper
\* with the error code the block is cached under, and unreachable.
C3_TrapBlocks ==
  /\ tpc = "body" =>
       \A j \in 1..Len(fc.Emitted) : fc.Emitted[j].bb \notin Named("trap")
  /\ tpc = "done" =>
       /\ Cached = fc.Requested
       /\ {fc.TrapBB[e] : e \in Cached} = Named("trap")
       /\ Cardinality(Named("trap")) = Cardinality(fc.Requested)
       /\ \A e \in Cached : CodeIn(fc.Emitted, fc.TrapBB[e]) = Epilogue(e)

\* A finished function that keeps both counters, asked for two error kinds
\* and asked for one of them twice.
C3_Witness ==
  /\ tpc = "done"
  /\ fc.LocalInstrCount /\ fc.LocalGas
  /\ Cardinality(fc.Requested) >= 2
  /\ Cardinality(Named("gas_check")) >= 2
  /\ Cardinality(ErrKinds \ fc.Requested) >= 2

\* ------------------------------------------------------------- C4, C5
\* The quotient and the remainder of WebAssembly: X = q * Y + r with
\* |r| < |Y| and r of the sign of X.
QuotRem(X, Y) ==
  CHOOSE qr \in ((0 - Mod)..Mod) \X ((0 - Mod)..Mod) :
    /\ X = qr[1] * Y + qr[2]
    /\ Abs(qr[2]) < Abs(Y)
    /\ qr[2] = 0 \/ (qr[2] < 0) = (X < 0)

Ran(ops) == tpc = "run" /\ rt.kind = "div" /\ lastOp.I.op \in ops

Stopped == Cur(1).st # "run"
Trapped(Error) == Cur(1).st = "trap" /\ Cur(1).trap = Error
Returned(x) == Cur(1).st = "end" /\ Cur(1).r.res = x

Overflows == Cur(1).r.lhs = IntMin /\ Cur(1).r.rhs = IntMinusOne

\* C4: div_s and div_u on every pair (lhs, rhs): with rhs = 0 control
\* reaches the trap block of DivideByZero, by the first branch of the code;
\* div_s with rhs # 0 and (lhs, rhs) = (INT_MIN, -1) reaches the trap block
\* of IntegerOverflow; in every other case no trap is reached and the value
\* is the signed (div_s) or unsigned (div_u) quotient.
C4_Div ==
  (Ran({"Div_s", "Div_u"}) /\ Stopped) =>
    LET r == Cur(1).r
    IN IF r.rhs = 0 THEN Trapped("DivideByZero") /\ Cur(1).branches = 1
       ELSE IF lastOp.I.op = "Div_s" /\ Overflows
       THEN Trapped("IntegerOverflow")
       ELSE IF lastOp.I.op = "Div_s"
       THEN Returned(QuotRem(Signed(r.lhs), Signed(r.rhs))[1] % Mod)
       ELSE Returned(QuotRem(r.lhs, r.rhs)[1])

\* INT_MIN div_s -1 has reached the trap block of IntegerOverflow.
C4_Witness ==
  Ran({"Div_s"}) /\ Overflows /\ Trapped("IntegerOverflow")

\* C5: rem_s and rem_u on every pair (lhs, rhs): with rhs = 0 control
\* reaches the trap block of DivideByZero; in every other case no trap is
\* reached and the value is the signed (rem_s) or unsigned (rem_u)
\* remainder. INT_MIN rem_s -1 is guarded by a branch around the srem and
\* gives 0: it does not trap, and rem_s has no IntegerOverflow trap.
C5_Rem ==
  /\ Ran({"Rem_s", "Rem_u"}) => fc.TrapBB["IntegerOverflow"] = NoBlock
  /\ (Ran({"Rem_s", "Rem_u"}) /\ Stopped) =>
       LET r == Cur(1).r
       IN IF r.rhs = 0 THEN Trapped("DivideByZero")
          ELSE IF lastOp.I.op = "Rem_s"
          THEN /\ Returned(QuotRem(Signed(r.lhs), Signed(r.rhs))[2] % Mod)
               /\ Overflows => Returned(0) /\ Cur(1).branches = 3
          ELSE Returned(QuotRem(r.lhs, r.rhs)[2])

\* INT_MIN rem_s -1 has returned 0.
C5_Witness ==
  Ran({"Rem_s"}) /\ Overflows /\ Returned(0)

\* C5 as stated: a zero divisor goes to the DivideByZero trap and INT_MIN
\* rem_s -1 goes to the IntegerOverflow trap.
C5_AsStated ==
  (Ran({"Rem_s", "Rem_u"}) /\ Stopped) =>
    /\ Cur(1).r.rhs = 0 => Trapped("DivideByZero")
    /\ (lastOp.I.op = "Rem_s" /\ Cur(1).r.rhs # 0 /\ Overflows) =>
         Trapped("IntegerOverflow")

\* ------------------------------------------------------------------- C6
\* The width in bytes of the access of the operator run: notify is checked
\* as a 32-bit access.
AccessBytes ==
  IF lastOp.I.op = "Atomic_notify" THEN 4 ELSE lastOp.I.ls[3] \div 8

\* The effective address: the zero-extended address plus the static offset.
Effective == Cur(1).r.addr + lastOp.I.ls[1]

RanAtomic == tpc = "run" /\ rt.kind = "atomic"

\* C6: for every atomic memory operator, address a and static offset o: if
\* zext(a) + o is not a multiple of the width of the access in bytes, control
\* reaches the trap block of UnalignedAtomicAccess and neither the access nor
\* the intrinsic call has been performed; if it is a multiple the trap is not
\* reached and the access is performed. The alignment immediate of the
\* instruction plays no part.
C6_Alignment ==
  /\ (RanAtomic /\ Cur(1).r.accessed) => Effective % AccessBytes = 0
  /\ (RanAtomic /\ Stopped) =>
       IF Effective % AccessBytes # 0
       THEN Trapped("UnalignedAtomicAccess") /\ ~Cur(1).r.accessed
       ELSE Cur(1).st = "end" /\ Cur(1).r.accessed

\* A 64-bit compare-exchange with alignment immediate 0, whose address is a
\* multiple of 8 only without the offset, has trapped.
C6_Witness ==
  /\ RanAtomic /\ lastOp.I.op = "Atomic_cmpxchg"
  /\ lastOp.I.ls = <<4, 0, 64>>
  /\ Cur(1).r.addr = 0
  /\ Trapped("UnalignedAtomicAccess")

\* ------------------------------------------------------------------- C7
\* The instruction the last step translated, in a reachable frame.
Translated(ops) == tpc = "body" /\ lastOp.I.op \in ops /\ ~lastOp.was

\* C7: translating an atomic memory operator in a reachable frame changes
\* the height of the operand stack by the results minus the operands of its
\* signature: load 0, store -2, rmw -1, cmpxchg -2, wait -2, notify -1,
\* fence 0.
C7_AtomicHeight ==
  Translated(AtomicOps) =>
    Len(fc.Stack) - lastOp.h0 = Sig(lastOp.I)[2] - Sig(lastOp.I)[1]

\* An atomic store translated in a reachable frame left its address on the
\* operand stack.
C7_StoreLeavesAddress ==
  /\ Translated({"Atomic_store"})
  /\ Len(fc.Stack) = lastOp.h0 - 1
  /\ Len(fc.Stack) = val.h + 1
  /\ stackBack(fc).k = "const"

\* ------------------------------------------------------------------- C8
\* C8: for every gas g of the shared cell, local cost c and limit L, the
\* code of updateGas reaches the trap block of CostLimitExceeded whenever
\* g + c exceeds L, and does not trap whenever g + c does not exceed L.
C8_LimitDetected ==
  (tpc = "run" /\ rt.kind = "gas" /\ Stopped) =>
    IF rt.gas0 + Cur(1).r.acc > rt.GasLimit
    THEN Trapped("CostLimitExceeded")
    ELSE Cur(1).st = "end"

\* g + c exceeds L and wraps around: the thread has returned, and the shared
\* cell holds the wrapped sum.
C8_WrapUndetected ==
  /\ tpc = "run" /\ rt.kind = "gas"
  /\ Cur(1).st = "end"
  /\ rt.gas0 + Cur(1).r.acc > rt.GasLimit
  /\ rt.gas = rt.gas0 + Cur(1).r.acc - Mod

\* ------------------------------------------------------------------- C9
RECURSIVE SumAcc(_)
SumAcc(n) == IF n = 0 THEN 0 ELSE Cur(n).r.acc + SumAcc(n - 1)

AllStopped ==
  tpc = "run" /\ rt.kind = "gasmt" /\ \A t \in Threads : Cur(t).st # "run"

\* C9: when several threads run the compare-exchange loop of updateGas or
\* the atomic add of the trap epilogue on the same gas cell, no update is
\* lost under any interleaving: when all have stopped the cell holds its
\* first value plus the costs of all threads (in the arithmetic of the cell),
\* and where that sum does not exceed the limit no thread has met the cost
\* limit and the cell holds exactly the sum.
C9_NoLostUpdate ==
  AllStopped =>
    LET total == rt.gas0 + SumAcc(NThreads)
    IN /\ rt.gas = total % Mod
       /\ total <= rt.GasLimit =>
            /\ \A t \in Threads : Cur(t).trap # "CostLimitExceeded"
            /\ rt.gas = total

\* Both threads have flushed a cost by the compare-exchange loop and
\* returned, one of them after its compare-exchange met the gas of the other.
C9_Witness ==
  /\ AllStopped
  /\ \A t \in Threads : Cur(t).st = "end" /\ Cur(t).r.acc > 0
  /\ \E t \in Threads : Cur(t).r.PHIOldGas # Cur(t).r.Gas
  /\ rt.gas = rt.gas0 + SumAcc(NThreads)

\* ------------------------------------------------------------------ C10
\* The place of the first instruction of E with an operation of ops, and
\* Len(E) + 1 if there is none.
First(E, ops) ==
  IF \E j \in 1..Len(E) : E[j].op \in ops
  THEN CHOOSE j \in 1..Len(E) :
         E[j].op \in ops /\ \A q \in 1..(j - 1) : E[q].op \notin ops
  ELSE Len(E) + 1

\* E flushes the instruction counter (atomic add, then the local reset)
\* before its first call, and counts nothing between the two.
FlushBeforeCall(E) ==
  LET c == First(E, {"call", "call.intrinsic"})
  IN /\ c <= Len(E)
     /\ \E j \in 1..(c - 2) :
          /\ E[j].op = "instr.flush" /\ E[j + 1].op = "instr.reset"
          /\ \A q \in (j + 2)..c : E[q].op # "instr.inc"

\* The frame a branch with label l goes to, as the validator saw it.
Target(l) == val.ctrl[Len(val.ctrl) - l]

BackEdge ==
  /\ Translated({"Br", "Br_if"})
  /\ Target(lastOp.I.ls[1]).kind = "loop"
  /\ ~Target(lastOp.I.ls[1]).g.cDead

\* C10, the calls: with instruction counting, the code of every call
\* instruction (call, call_indirect, call_ref and their return_call forms)
\* flushes the local instruction counter into the shared one (atomic add,
\* then local reset to 0) before the call.
CallsFlush ==
  (Translated(CallOps) /\ fc.LocalInstrCount) => FlushBeforeCall(fc.Emitted)

RanStop == tpc = "run" /\ rt.kind = "stop"

\* Every poll in the code: the exchange, then the branch on the value read
\* to the block that goes on or to the trap block of Interrupted.
PollsBranch ==
  \A j \in 1..Len(fc.Emitted) :
    fc.Emitted[j].op = "stop.xchg" =>
      /\ j < Len(fc.Emitted)
      /\ fc.Emitted[j + 1].bb = fc.Emitted[j].bb
      /\ fc.Emitted[j + 1].op = "condbr" /\ fc.Emitted[j + 1].arg = "eq0"
      /\ fc.Emitted[j + 1].to[1] \in Named("NotStop")
      /\ fc.Emitted[j + 1].to[2] = fc.TrapBB["Interrupted"]

\* C11: in a function compiled as interruptible every poll of the stop token
\* exchanges the cell with 0 in one step (the cell is 0 after the poll) and
\* the thread traps with Interrupted if and only if the value it read was
\* not 0; a function compiled as not interruptible holds no poll, and its
\* thread neither reads nor writes the cell.
C11_StopPoll ==
  /\ [](RanStop =>
         IF fc.Interruptible
         THEN /\ PollsBranch
              /\ Cur(1).st = "trap" => Cur(1).trap = "Interrupted"
              /\ (Cur(1).r.polls > 0 /\ Cur(1).bb \notin Named("loop")) =>
                   (Cur(1).bb \in Named("trap")) = (Cur(1).r.StopToken # 0)
         ELSE /\ ~HasOp(fc.Emitted, "stop.xchg")
              /\ fc.TrapBB["Interrupted"] = NoBlock
              /\ Cur(1).r.polls = 0 /\ Cur(1).st # "trap")
  /\ [][RanStop =>
         /\ (At(1, {"stop.xchg"}) /\ rt'.th # rt.th) =>
              rt'.stop = 0 /\ rt'.th[1].r.StopToken = rt.stop
         /\ (~At(1, {"stop.xchg"}) /\ rt'.th # rt.th) => rt'.stop = rt.stop]_vars

\* The second poll of a loop has read a token stored while the loop ran, has
\* left 0 in the cell, and the thread has trapped with Interrupted.
C11_Witness ==
  /\ RanStop /\ fc.Interruptible /\ lastOp.I.op = "Br"
  /\ Cur(1).st = "trap" /\ Cur(1).trap = "Interrupted"
  /\ Cur(1).r.polls = 2 /\ Cur(1).r.StopToken # 0 /\ rt.stop = 0
  /\ rt.writes = 1

\* The thread runs a loop it never leaves by itself.
Iterating ==
  RanStop /\ Cur(1).st = "run" /\ (lastOp.I.op = "Br" \/ Cur(1).r.cond # 0)

\* The thread is in the body of the loop, behind the poll of the header.
InBody == Cur(1).st = "run" /\ Cur(1).bb \in Named("NotStop")

\* C12: in an interruptible function every entry of the loop header, the
\* first and each by a back-edge, polls the stop token before the body
\* (in the body the thread has polled once per entry of the header: two
\* branches are taken per iteration); so a token that is not 0 while the
\* thread iterates a loop, or before its first poll, leads to the trap of
\* Interrupted.
C12_LoopPolls ==
  /\ []((RanStop /\ fc.Interruptible /\ InBody
           /\ Cur(1).branches < MaxBranches) =>
          2 * Cur(1).r.polls = Cur(1).branches)
  /\ ((fc.Interruptible /\ rt.stop # 0
        /\ (Iterating \/ (RanStop /\ Cur(1).r.polls = 0)))
        ~> (Cur(1).st = "trap" /\ Cur(1).trap = "Interrupted"))

\* A loop that went round by the back-edge of a br_if has trapped with
\* Interrupted at the poll of its third entry.
C12_Witness ==
  /\ RanStop /\ fc.Interruptible /\ lastOp.I.op = "Br_if"
  /\ Cur(1).r.cond # 0
  /\ Cur(1).st = "trap" /\ Cur(1).trap = "Interrupted"
  /\ Cur(1).r.polls = 3

\* ------------------------------------------------------------ C13, C14
\* From the lock of the mutex to its release.
Active(p) ==
  cc.call[p].pc \in {"install", "sections", "optimize", "cleanup", "unlock"}

\* C13: two calls of compile(Module) on one compiler never overlap in the
\* emission: from the install of the context through the sections, the
\* verification and the optimisation at most one call is active, and it owns
\* the mutex; Context points to the context of a call only while that call
\* owns the mutex, and every section of a call was emitted through the
\* context of that call.
C13_Serialised ==
  tpc = "module" =>
    /\ \A p, q \in Callers : (Active(p) /\ Active(q)) => p = q
    /\ \A p \in Callers : Active(p) <=> cc.Mutex = p
    /\ cc.Context # NoCaller =>
         /\ cc.Context = cc.Mutex
         /\ cc.call[cc.Context].pc \in {"sections", "optimize", "cleanup"}
    /\ \A p \in Callers :
         \A j \in 1..Len(cc.call[p].Sections) :
           cc.call[p].Sections[j] = <<SectionOrder[j], p>>

\* The second caller waits for the mutex while the first, which owns it, has
\* emitted some of its sections through its own context.
C13_Witness ==
  /\ tpc = "module"
  /\ cc.call[2].pc = "lock" /\ cc.Mutex = 1 /\ cc.Context = 1
  /\ cc.call[1].pc = "sections" /\ Len(cc.call[1].Sections) = 3

\* C14: compile on a module whose validated flag is false returns
\* NotValidated before any effect: the call never owns the mutex, never
\* installs its context and emits no section.
C14_NotValidated ==
  tpc = "module" =>
    \A p \in Callers :
      ~cc.call[p].Validated =>
        /\ cc.call[p].pc \in {"check", "done"}
        /\ cc.call[p].pc = "done" => cc.call[p].ret = "NotValidated"
        /\ ~cc.call[p].held /\ cc.Mutex # p /\ cc.Context # p
        /\ cc.call[p].Sections = <<>>

\* A call on a module that is not validated has returned NotValidated while
\* another call owned the mutex.
C14_Witness ==
  /\ tpc = "module"
  /\ ~cc.call[1].Validated
  /\ cc.call[1].pc = "done" /\ cc.call[1].ret = "NotValidated"
  /\ cc.Mutex = 2 /\ cc.call[2].pc = "sections"

\* ------------------------------------------------------------------ C15
RanTrunc == tpc = "run" /\ rt.kind = "trunc"

\* The operand toward zero, as an integer (the operand is h halves).
Truncated ==
  LET h == Cur(1).r.fp.h
  IN IF h < 0 THEN 0 - ((0 - h) \div 2) ELSE h \div 2

\* The least and the greatest integer of the type of the operator run.
TruncMin ==
  IF lastOp.I.op \in {"Trunc_s", "Trunc_sat_s"}
  THEN 0 - 2 ^ (lastOp.I.ls[1] - 1) ELSE 0
TruncMax ==
  IF lastOp.I.op \in {"Trunc_s", "Trunc_sat_s"}
  THEN 2 ^ (lastOp.I.ls[1] - 1) - 1 ELSE 2 ^ lastOp.I.ls[1] - 1

\* C15: the trapping truncations check NaN, then the lower bound, then the
\* upper bound: a NaN reaches the trap of InvalidConvToInt by the first
\* branch, a truncated value below the least integer the trap of
\* IntegerOverflow by the second, one above the greatest by the third, and
\* only a value in the range is converted; the saturating truncations reach
\* no trap and give 0 for a NaN, the least integer below the range, the
\* greatest above it, and the converted value otherwise. No conversion is
\* run on a value it is undefined for.
C15_Trunc ==
  /\ RanTrunc => ~Cur(1).r.accessed
  /\ (RanTrunc /\ Stopped) =>
       LET x == Cur(1).r.fp
           N == 2 ^ lastOp.I.ls[1]
           sat == lastOp.I.op \in {"Trunc_sat_s", "Trunc_sat_u"}
       IN IF x.nan
          THEN IF sat THEN Returned(0)
               ELSE Trapped("InvalidConvToInt") /\ Cur(1).branches = 1
          ELSE IF Truncated < TruncMin
          THEN IF sat THEN Returned(TruncMin % N)
               ELSE Trapped("IntegerOverflow") /\ Cur(1).branches = 2
          ELSE IF Truncated > TruncMax
          THEN IF sat THEN Returned(TruncMax)
               ELSE Trapped("IntegerOverflow") /\ Cur(1).branches = 3
          ELSE Returned(Truncated % N)

\* A trapping signed truncation from the narrow format to the narrow
\* integer, whose greatest integer the format does not hold, has trapped
\* on the least number above the range.
C15_Witness ==
  /\ RanTrunc /\ lastOp.I.op = "Trunc_s" /\ lastOp.I.ls = <<4, 2>>
  /\ Truncated = TruncMax + 1
  /\ Trapped("IntegerOverflow")

\* ------------------------------------------------------------------ C16
\* The instructions that leave the current block for good.
Unconditional == {"Unreachable", "Br", "Br_table", "Return"} \cup TailCalls

\* The conditional branches and the operators that may trap.
Conditional ==
  {"Br_if", "Br_on_null", "Br_on_non_null", "Div_s", "Div_u", "Rem_s",
   "Rem_u", "Call", "Call_indirect", "Call_ref"} \cup AtomicOps

BranchOps == {"Br", "Br_if", "Br_table", "Br_on_null", "Br_on_non_null"}

\* The operands a branch pops before it records its labels.
Popped(I) == IF I.op \in {"Br_if", "Br_table", "Br_on_null"} THEN 1 ELSE 0

\* The n values on top of the stack when I records its labels.
Carried(I, n) == topN(popN(fc, Popped(I)), n)

\* The entries of I (of a br_table, the default last) that name frame d.
Hits(I, d) ==
  Cardinality({j \in 1..Len(I.ls) : Len(fc.ControlStack) - I.ls[j] = d})

\* new is old with k more elements e at its end.
Grown(old, new, k, e) ==
  /\ Len(new) = Len(old) + k
  /\ \A j \in 1..Len(new) : new[j] = IF j <= Len(old) THEN old[j] ELSE e

\* The targets of the branch instructions in the code E, in order.
Targets(E) ==
  LET isBr(e) == e.op \in {"br", "condbr", "switch", "addCase"}
      brs == SelectSeq(E, isBr)
  IN [j \in 1..Len(brs) |-> brs[j].to[1]]

\* The jump blocks I names: of a br_table, the default first.
Jumps(I) ==
  LET n == Len(fc.ControlStack)
      J(l) == fc.ControlStack[n - l].JumpBlock
  IN IF I.op = "Br_table"
     THEN <<J(I.ls[Len(I.ls)])>> \o [j \in 1..(Len(I.ls) - 1) |-> J(I.ls[j])]
     ELSE <<J(I.ls[1])>>

TopControl == fc.ControlStack[Len(fc.ControlStack)]

\* Whether the frame under the innermost one is in dead code.
OuterDead ==
  \E d \in 1..(Len(val.ctrl) - 1) : val.ctrl[d].unreachable

\* The incomings an End reconciles now: the pairs the frame has recorded,
\* the fall-through of the arm that ends if it is reachable, and the arm an
\* if without else lacks, which carries the arguments of the entry.
EndIncomings ==
  LET F == TopControl
  IN F.ReturnPHI
       \o (IF ~F.Unreachable
           THEN << <<topN(fc, F.Type[2]), fc.InsertBlock>> >> ELSE <<>>)
       \o (IF VTop(val).kind = "if" /\ ~OuterDead
           THEN << <<F.Args, F.ElseBlock>> >> ELSE <<>>)

\* C18: at the End of a frame with results, the pairs the frame has recorded
\* are as many as the live branches that name the end of the frame plus the
\* arms before that ran to their end alive, and the incomings reconciled are
\* these pairs, the fall-through of the arm that ends (if reachable) and the
\* arm an if without else lacks (the arguments of the entry, from the else
\* block). Two incomings or more: one new PHI for each result, with one
\* incoming for each pair in order, and the PHIs are pushed. One incoming:
\* its values are pushed and no PHI is made. No incoming: undefined values
\* are pushed and no PHI is made, and then every arm has ended unreachable
\* and no live branch names the end.
C18_EndIncomings ==
  [][(tpc = "body" /\ lastOp'.I.op = "End" /\ val.ctrl # <<>>
        /\ TopControl.Type[2] > 0) =>
       LET F == TopControl
           V == VTop(val)
           r == F.Type[2]
           branches == IF V.kind = "loop" THEN 0 ELSE V.brs
           Incs == EndIncomings
           base == SubSeq(fc.Stack, 1, F.StackSize)
           np == Len(fc.PHIs)
       IN /\ F.Unreachable = VDead(val)
          /\ Len(F.ReturnPHI) = branches + V.arms
          /\ Len(Incs) >= 2 =>
               /\ Len(fc'.PHIs) = np + r
               /\ \A j \in 1..r :
                    fc'.PHIs[np + j].inc =
                      [q \in 1..Len(Incs) |-> <<Incs[q][1][j], Incs[q][2]>>]
               /\ fc'.Stack = base \o [j \in 1..r |-> [k |-> "phi",
                                                        i |-> np + j]]
          /\ Len(Incs) = 1 =>
               fc'.PHIs = fc.PHIs /\ fc'.Stack = base \o Incs[1][1]
          /\ Len(Incs) = 0 =>
               /\ fc'.PHIs = fc.PHIs
               /\ fc'.Stack = base \o [j \in 1..r |-> Undef]
               /\ VDead(val) /\ branches = 0 /\ V.arms = 0
               /\ V.kind = "if" => OuterDead]_vars

\* The End of an if without else whose then arm runs to its end: the result
\* is a PHI of the value of the then arm and of the argument of the entry.
C18_Witness ==
  /\ Translated({"End"}) /\ lastOp.frame.kind = "if" /\ lastOp.frame.r = 1
  /\ fc.PHIs # <<>>
  /\ stackBack(fc) = [k |-> "phi", i |-> Len(fc.PHIs)]
  /\ Len(fc.PHIs[Len(fc.PHIs)].inc) = 2
  /\ fc.Blocks[fc.PHIs[Len(fc.PHIs)].inc[2][2]].name = "else"

\* ------------------------------------------------------------------ C19
\* The terminators in the code E.
Closings(E) ==
  LET isTerm(e) == e.op \in {"br", "unreachable"}
  IN Len(SelectSeq(E, isTerm))

\* C19: Else leaves the depth of the control stack as it is and restarts the
\* frame on top. After it the operand stack is what lies under the base of
\* the frame followed by the arguments of the entry; the jump block, the
\* block type, the base and the arguments of the frame are the same; the
\* ReturnPHI of the frame is the one before Else, followed by the
\* fall-through of the then arm if that is reachable; emission goes on in
\* the else block and the frame has no else block any more. The End that
\* closes the frame then closes one arm only: it emits one terminator and
\* reconciles the pairs recorded and its own fall-through, nothing else.
C19_ElseRestarts ==
  [][(tpc = "body" /\ val.ctrl # <<>>) =>
       LET F == TopControl
           n == Len(fc.ControlStack)
           F2 == fc'.ControlStack[n]
       IN /\ lastOp'.I.op = "Else" =>
               /\ Len(fc'.ControlStack) = n
               /\ fc'.Stack = SubSeq(fc.Stack, 1, F.StackSize) \o F.Args
               /\ F2.JumpBlock = F.JumpBlock /\ F2.Type = F.Type
               /\ F2.StackSize = F.StackSize /\ F2.Args = F.Args
               /\ F2.NextBlock = NoBlock
               /\ F2.ReturnPHI =
                    F.ReturnPHI \o
                      (IF ~F.Unreachable /\ F.Type[2] > 0
                       THEN << <<topN(fc, F.Type[2]), fc.InsertBlock>> >>
                       ELSE <<>>)
               /\ F.ElseBlock # NoBlock /\ fc'.InsertBlock = F.ElseBlock
               /\ F2.ElseBlock = NoBlock
               /\ F2.Unreachable = OuterDead
          /\ (lastOp'.I.op = "End" /\ VTop(val).kind = "else") =>
               /\ F.ElseBlock = NoBlock
               /\ Closings(fc'.Emitted) = 1
               /\ fc'.InsertBlock = F.JumpBlock
               /\ Len(EndIncomings) =
                    Len(F.ReturnPHI) + (IF F.Unreachable THEN 0 ELSE 1)]_vars

\* An Else after a then arm that left with a br to the end of the if: the
\* pair the br recorded is in the list of the frame restarted, which is
\* reachable again, and the argument of the entry is on the stack.
C19_Witness ==
  /\ tpc = "body" /\ lastOp.I.op = "Else" /\ lastOp.was
  /\ ~TopControl.Unreachable /\ TopControl.ElseBlock = NoBlock
  /\ Len(TopControl.ReturnPHI) = 1
  /\ TopControl.Args # <<>>
  /\ fc.Stack = SubSeq(fc.Stack, 1, TopControl.StackSize) \o TopControl.Args

\* ------------------------------------------------------------------ C20
\* The instructions of the code E, by name.
Ops(E) == [j \in 1..Len(E) |-> E[j].op]

\* The counter updates in front of every instruction.
Counters ==
  (IF fc.LocalInstrCount THEN <<"instr.inc">> ELSE <<>>)
    \o (IF fc.LocalGas THEN <<"gas.inc">> ELSE <<>>)

\* A step that translates an instruction in a frame marked unreachable.
DeadStep ==
  /\ tpc = "body" /\ tpc' = "body" /\ val.ctrl # <<>>
  /\ isUnreachable(fc)

\* What FunctionCompiler holds beside the code of the last step.
Kept(s) == [s EXCEPT !.Emitted = <<>>, !.NInstr = 0]

StructuredOps == {"Block", "Loop", "If", "Else", "End"}

\* The operators whose translation in reachable code changes the height of
\* the operand stack as their signature says.
SignatureOps == {"Nop", "Const", "Drop", "Call", "Call_indirect", "Call_ref"}
                  \cup DivRemOps

RanGasMT == tpc = "run" /\ rt.kind = "gasmt"

\* Thread t executes an instruction of ops in this step.
Executes(t, ops) == At(t, ops) /\ rt'.th[t] # rt.th[t]

\* C22: in the loop updateGas emits, the new total is compared with the gas
\* limit before the compare-exchange: a thread at the compare-exchange holds
\* a new total, the old gas plus its cost, that does not exceed the limit. A
\* thread whose new total exceeds the limit goes to the trap block of
\* CostLimitExceeded from the comparison, without a compare-exchange of that
\* total and with the shared cell as it is. The compare-exchange reads the
\* cell; where it fails the cell is as before, and the thread comes back to
\* the PHI from the block of the compare-exchange and takes the gas the
\* compare-exchange read for the old gas; where it succeeds the cell held
\* the old gas and holds the new total, and the thread goes on to the reset
\* of its counter, to no comparison more.
C22_CheckBeforeCas ==
  /\ [](RanGasMT =>
         \A t \in Threads :
           At(t, {"gas.cmpxchg"}) =>
             /\ Cur(t).r.NewGas <= rt.GasLimit
             /\ Cur(t).r.NewGas
                  = (Cur(t).r.PHIOldGas + Cur(t).r.Cost) % Mod)
  /\ [][RanGasMT =>
         \A t \in Threads :
           LET r == Cur(t).r
               r2 == rt'.th[t].r
               I == Fetch(t)
           IN /\ (Executes(t, {"phi"}) /\ Cur(t).from = I.to[2]) =>
                   ~r.Succeed /\ r2.PHIOldGas = r.RGas
              /\ Executes(t, {"gas.cmpxchg"}) =>
                   /\ r2.RGas = rt.gas
                   /\ IF r2.Succeed
                      THEN rt.gas = r.PHIOldGas /\ rt'.gas = r.NewGas
                      ELSE rt'.gas = rt.gas
              /\ (Executes(t, {"condbr"}) /\ I.arg = "ule") =>
                   /\ rt'.gas = rt.gas
                   /\ IF r.NewGas <= rt.GasLimit
                      THEN Code(rt'.th[t].bb)[1].op = "gas.cmpxchg"
                      ELSE rt'.th[t].bb = fc.TrapBB["CostLimitExceeded"]
              /\ (Executes(t, {"condbr"}) /\ I.arg = "succeed") =>
                   IF r.Succeed
                   THEN Code(rt'.th[t].bb)[1].op = "gas.reset"
                   ELSE rt'.th[t].bb = Cur(t).from
                          /\ Code(rt'.th[t].bb)[1].op = "phi"]_vars

\* A thread is at the compare-exchange again, after one that failed because
\* the cell held the gas of the other thread: its old gas is the gas the
\* compare-exchange read.
C22_Witness ==
  /\ RanGasMT
  /\ \E t \in Threads :
       /\ At(t, {"gas.cmpxchg"})
       /\ ~Cur(t).r.Succeed
       /\ Cur(t).r.PHIOldGas = Cur(t).r.RGas
       /\ Cur(t).r.RGas # Cur(t).r.Gas

\* C22 as stated: a thread that has met the cost limit has published its
\* new total by a compare-exchange that succeeded.
C22_AsStated ==
  RanGasMT =>
    \A t \in Threads :
      (Cur(t).st = "trap" /\ Cur(t).trap = "CostLimitExceeded") =>
        Cur(t).r.Succeed

\* ------------------------------------------------------------------ C23
\* The header PHIs of the loop frame F are one for each parameter, all in
\* the header and no two the same.
HeaderPHIs(s, F) ==
  /\ Len(F.Args) = F.Type[1]
  /\ \A j \in 1..Len(F.Args) :
       /\ F.Args[j].k = "phi"
       /\ F.Args[j].i \in 1..Len(s.PHIs)
       /\ s.PHIs[F.Args[j].i].bb = F.JumpBlock
       /\ \A q \in 1..Len(F.Args) : F.Args[q].i = F.Args[j].i => q = j

\* loop (result i32), a push of a value, br 0: the state after the br, and
\* the state after the end that follows.
ExampleAfterBr ==
  /\ tpc = "body" /\ fc.NInstr = 3 /\ lastOp.I.op = "Br" /\ ~lastOp.was
  /\ lastOp.I.ls = <<0>> /\ lastOp.h0 = 1
  /\ lastOp.frame.kind = "loop" /\ lastOp.frame.height = 0
  /\ lastOp.frame.p = 0 /\ lastOp.frame.r = 1

ExampleAfterEnd ==
  /\ tpc = "body" /\ fc.NInstr = 4 /\ lastOp.I.op = "End" /\ lastOp.was
  /\ lastOp.h0 = 1 /\ lastOp.frame.brs = 1
  /\ lastOp.frame.kind = "loop" /\ lastOp.frame.height = 0
  /\ lastOp.frame.p = 0 /\ lastOp.frame.r = 1

\* C23: Loop makes one header PHI for each parameter of its block type, in
\* the header block, each with one incoming: the value of the entry (an
\* undefined value in dead code) from the block the loop is entered from.
\* While a loop frame is open its ReturnPHI is empty, whatever branches name
\* it, so its End reconciles the fall-through alone, if that is reachable,
\* and makes no PHI. A loop of block type (result i32) has no parameter: for
\* loop (result i32), a push, br 0, end there is no PHI at all, the br 0
\* records nothing and is one unconditional branch to the header, and the
\* end block gets no incoming: the result is an undefined value.
C23_LoopHeader ==
  /\ [](tpc = "body" =>
         /\ \A d \in 1..Len(fc.ControlStack) :
              fc.ControlStack[d].NextBlock # NoBlock =>
                /\ fc.ControlStack[d].ReturnPHI = <<>>
                /\ HeaderPHIs(fc, fc.ControlStack[d])
         /\ ExampleAfterBr =>
              /\ fc.PHIs = <<>>
              /\ Ops(fc.Emitted) = Counters \o <<"br">>
              /\ Targets(fc.Emitted) = <<TopControl.JumpBlock>>
              /\ fc.Blocks[TopControl.JumpBlock].name = "loop"
              /\ TopControl.ReturnPHI = <<>> /\ TopControl.Unreachable
         /\ ExampleAfterEnd =>
              /\ fc.PHIs = <<>> /\ left.ReturnPHI = <<>>
              /\ fc.Stack = <<Undef>>
              /\ fc.Blocks[fc.InsertBlock].name = "loop.end")
  /\ [][(tpc = "body" /\ val.ctrl # <<>>) =>
         LET I == lastOp'.I
             np == Len(fc.PHIs)
             F2 == fc'.ControlStack[Len(fc'.ControlStack)]
         IN /\ I.op = "Loop" =>
                 /\ Len(fc'.PHIs) = np + I.p
                 /\ F2.NextBlock # NoBlock /\ HeaderPHIs(fc', F2)
                 /\ fc'.Blocks[F2.JumpBlock].name = "loop"
                 /\ \A j \in 1..I.p :
                      /\ F2.Args[j].i > np
                      /\ fc'.PHIs[F2.Args[j].i].inc =
                           << <<IF isUnreachable(fc) THEN Undef
                                ELSE topN(fc, I.p)[j], fc.InsertBlock>> >>
            /\ (I.op = "End" /\ VTop(val).kind = "loop") =>
                 /\ Len(fc'.PHIs) = np
                 /\ EndIncomings =
                      IF TopControl.Unreachable THEN <<>>
                      ELSE << <<topN(fc, TopControl.Type[2]),
                                fc.InsertBlock>> >>]_vars

\* The example after its end: the loop has left an undefined value and no
\* PHI.
C23_Witness ==
  ExampleAfterEnd /\ fc.Stack = <<Undef>> /\ fc.PHIs = <<>>

\* C23 as stated, for the example: the header of the loop has a PHI.
C23_AsStated ==
  ExampleAfterEnd =>
    \E i \in 1..Len(fc.PHIs) : fc.Blocks[fc.PHIs[i].bb].name = "loop"

\* ------------------------------------------------------------------ C24
\* The blocks of name in the function s.
NamedIn(s, name) == {b \in 1..Len(s.Blocks) : s.Blocks[b].name = name}

\* C24: while a function is translated the cache of trap blocks holds one
\* block for each error kind asked for so far and none for the others; the
\* blocks of two kinds differ, and the trap blocks of the function are the
\* blocks of the cache. A step leaves the block of every kind in the cache
\* as it is, so getTrapBB gives the same block for the same kind, makes one
\* trap block for each kind the step asks for first and none for a kind
\* asked for before; every branch to a trap block goes to a block of the
\* cache.
C24_TrapCache ==
  /\ [](tpc \in {"body", "done"} =>
         /\ Cached = fc.Requested
         /\ \A e1 \in Cached, e2 \in Cached :
              fc.TrapBB[e1] = fc.TrapBB[e2] => e1 = e2
         /\ {fc.TrapBB[e] : e \in Cached} = Named("trap")
         /\ Cardinality(Cached) = Cardinality(Named("trap")))
  /\ [][tpc = "body" =>
         /\ \A e \in Cached : fc'.TrapBB[e] = fc.TrapBB[e]
         /\ fc.Requested \subseteq fc'.Requested
         /\ Cardinality(NamedIn(fc', "trap")) - Cardinality(Named("trap"))
              = Cardinality(fc'.Requested \ fc.Requested)
         /\ \A e \in fc'.Requested \ fc.Requested :
              fc'.TrapBB[e] > Len(fc.Blocks)
         /\ tpc' = "body" =>
              \A j \in 1..Len(fc'.Emitted), q \in 1..2 :
                (q <= Len(fc'.Emitted[j].to)
                   /\ fc'.Emitted[j].op \in {"br", "condbr"}
                   /\ fc'.Emitted[j].to[q] \in NamedIn(fc', "trap")) =>
                  \E e \in fc'.Requested :
                    fc'.Emitted[j].to[q] = fc'.TrapBB[e]]_vars

\* The second poll of the stop token in a function: it branches to the trap
\* block of Interrupted, which is older than the block the poll goes on in.
C24_Witness ==
  /\ tpc = "body" /\ fc.Interruptible
  /\ lastOp.I.op \in {"Block", "Loop"}
  /\ Cardinality(Named("NotStop")) = 2
  /\ Cardinality(Named("trap")) = Cardinality(fc.Requested)
  /\ \E j \in 1..Len(fc.Emitted) :
       /\ fc.Emitted[j].op = "condbr" /\ fc.Emitted[j].arg = "eq0"
       /\ fc.Emitted[j].to[2] = fc.TrapBB["Interrupted"]
       /\ fc.Emitted[j].to[1] > fc.TrapBB["Interrupted"]
       /\ \E b \in Named("NotStop") : b < fc.TrapBB["Interrupted"]

\* ------------------------------------------------------------------ C25
\* The code of call_ref and return_call_ref is run on a reference whose
\* payload (element 1 of the pair) is r.Ref. kRefGetFuncSymbol gives the
\* symbol of the function of the reference, or null when the function has no
\* compiled symbol; of a null reference it reads through a null pointer, which
\* is undefined. r.did lists the helpers and the callee the thread has called.
RunCall(t) ==
  /\ At(t, {"call", "call.intrinsic", "phi"})
  /\ Fetch(t).op = "phi" => Fetch(t).arg # "srem,0"
  /\ LET I == Fetch(t)
         r == Cur(t).r
     IN CASE I.op = "call.intrinsic" /\ I.arg = "RefGetFuncSymbol" ->
               \/ \E f \in 0..1 :
                    rt' = Step(t, [r EXCEPT !.FPtr = f,
                                            !.did = Append(@, I.arg)])
               \/ r.Ref = 0 /\ rt' = [rt EXCEPT !.th[t].st = "fault"]
          [] I.op = "call.intrinsic" /\ I.arg # "RefGetFuncSymbol" ->
               rt' = Step(t, [r EXCEPT !.did = Append(@, I.arg)])
          [] I.op = "call" -> rt' = Step(t, [r EXCEPT !.did = Append(@, "call")])
          [] I.op = "phi" -> rt' = Step(t, r)
  /\ UNCHANGED tvars

CallRefOps == {"Call_ref", "Return_call_ref"}

\* A function of FRet results that pushes the p arguments and the
\* reference, and calls through the reference a function of p parameters
\* and FRet results.
CallRefFunction(op, p, FRet) ==
  Whole(<<FALSE, FALSE, FALSE, FRet>>,
        Repeat(Instr("Const", 0, 0, <<>>), p + 1)
        \o <<Instr(op, p, FRet, <<>>), Instr("End", 0, 0, <<>>)>>)

InitCallRef ==
  /\ \E op \in CallRefOps, p \in 0..1, FRet \in 0..1 :
       /\ fc = CallRefFunction(op, p, FRet)
       /\ lastOp = [NoOp EXCEPT !.I = Instr(op, p, FRet, <<>>)]
  /\ \E Ref \in Ints :
       rt = [kind |-> "callref", GasLimit |-> 0, gas |-> 0, gas0 |-> 0,
             th |-> << NewThread([NoRegs EXCEPT !.Ref = Ref]) >>]
  /\ val = [h |-> 0, ctrl |-> <<>>]
  /\ left = NoControl
  /\ tpc = "run"
  /\ stream = "any"
  /\ cc = NoCompiler

NextCallRef == RunBranch(1) \/ RunCall(1) \/ RunTrap(1) \/ RunRet(1)

SpecCallRef == InitCallRef /\ [][NextCallRef]_vars

\* C25: call_ref and return_call_ref test the payload of the reference
\* first: the entry block calls nothing and ends in the branch on the
\* payload, whose false side is the trap block of AccessNullFunc. A thread
\* with payload 0 is in that block after its first branch, calls neither
\* kRefGetFuncSymbol nor the callee nor kCallRef, and ends only in the trap
\* AccessNullFunc. A thread with another payload does not trap; it asks
\* for the symbol first, then calls the callee directly when there is a
\* symbol and through kCallRef when there is none.
C25_NullFirst ==
  LET r == Cur(1).r
      entry == Code(1)
  IN /\ \A j \in 1..Len(entry) :
          /\ entry[j].op \notin {"call", "call.intrinsic"}
          /\ j = Len(entry) =>
               /\ entry[j].op = "condbr" /\ entry[j].arg = "ref!=0"
               /\ entry[j].to[2] = fc.TrapBB["AccessNullFunc"]
     /\ Len(entry) > 0
     /\ r.Ref = 0 =>
          /\ r.did = <<>>
          /\ Cur(1).branches > 0 => Cur(1).bb = fc.TrapBB["AccessNullFunc"]
          /\ Cur(1).st \in {"run", "trap"}
          /\ Cur(1).st = "trap" => Cur(1).trap = "AccessNullFunc"
     /\ r.Ref # 0 =>
          /\ Cur(1).st \in {"run", "end"}
          /\ Len(r.did) <= 2
          /\ Len(r.did) >= 1 => r.did[1] = "RefGetFuncSymbol"
          /\ Len(r.did) = 2 =>
               r.did[2] = (IF r.FPtr # 0 THEN "call" ELSE "CallRef")
          /\ Cur(1).st = "end" => Len(r.did) = 2

\* return_call_ref of a null reference has trapped.
C25_Witness ==
  /\ rt.kind = "callref" /\ lastOp.I.op = "Return_call_ref"
  /\ Cur(1).r.Ref = 0
  /\ Cur(1).st = "trap" /\ Cur(1).trap = "AccessNullFunc"
  /\ Cur(1).r.did = <<>>

\* ------------------------------------------------------------------ C26
\* The frames below the top n of the control stack keep their flags in the
\* step.
FlagsKept(n) ==
  \A d \in 1..n : fc'.ControlStack[d].Unreachable
                     = fc.ControlStack[d].Unreachable

\* C26: block, loop and if push a frame whose flag is the flag of the frame
\* they are met in. else replaces the then arm by a frame whose flag is the
\* flag of the frame around the if, whatever the flag of the then arm was;
\* so does the else arm end makes for an if without else. end pops the
\* frame. None of them changes the flag of a frame that stays.
C26_FlagInherited ==
  [][(tpc = "body" /\ tpc' = "body") =>
       LET CS == fc.ControlStack
           n == Len(CS)
           op == lastOp'.I.op
       IN /\ op \in {"Block", "Loop", "If"} =>
               /\ Len(fc'.ControlStack) = n + 1
               /\ fc'.ControlStack[n + 1].Unreachable = CS[n].Unreachable
               /\ FlagsKept(n)
          /\ op = "Else" =>
               /\ Len(fc'.ControlStack) = n
               /\ n >= 2
               /\ fc'.ControlStack[n].Unreachable = CS[n - 1].Unreachable
               /\ FlagsKept(n - 1)
          /\ op = "End" =>
               /\ Len(fc'.ControlStack) = n - 1
               /\ FlagsKept(n - 1)
               /\ CS[n].ElseBlock # NoBlock =>
                    /\ n >= 2
                    /\ left'.Unreachable = CS[n - 1].Unreachable]_vars

\* else after a then arm that ended unreachable, in an if met in reachable
\* code: the else arm is reachable.
C26_Witness ==
  /\ tpc = "body" /\ lastOp.I.op = "Else"
  /\ left.Unreachable
  /\ ~TopControl.Unreachable
  /\ Len(fc.ControlStack) >= 2

\* ------------------------------------------------------------------ C27
\* The instructions on the counter slot of the thread and on the shared
\* instruction counter: the add of 1 in the main loop, and in
\* updateInstrCount the atomic add of the slot and the store of 0.
\* r.executed counts the instructions whose lowering the thread has begun.
RunCount(t) ==
  /\ At(t, {"instr.inc", "instr.flush", "instr.reset"})
  /\ LET I == Fetch(t)
         r == Cur(t).r
     IN CASE I.op = "instr.inc" ->
               rt' = Step(t, [r EXCEPT !.count = (@ + 1) % Mod,
                                       !.executed = (@ + 1) % Mod])
          [] I.op = "instr.flush" ->
               rt' = [Step(t, r) EXCEPT !.InstrCount = (@ + r.count) % Mod]
          [] I.op = "instr.reset" -> rt' = Step(t, [r EXCEPT !.count = 0])
  /\ UNCHANGED tvars

\* The highest number of instructions a callee runs.
MaxCallee == 1

\* A call: the callee counts its own instructions and returns.
RunCallee(t) ==
  /\ At(t, {"call"})
  /\ \E k \in 0..MaxCallee :
       rt' = [Step(t, [Cur(t).r EXCEPT !.executed = (@ + k) % Mod,
                                       !.did = <<"call">>])
                EXCEPT !.InstrCount = (@ + k) % Mod]
  /\ UNCHANGED tvars

CountFlags == <<TRUE, FALSE, FALSE, 0>>

\* Bodies with a trap, a loop in front of a call, a call in an arm of an
\* if, a tail call and two calls in a row.
CountBodies ==
  LET I(op) == Instr(op, 0, 0, <<>>)
      BrIf0 == Instr("Br_if", 0, 0, <<0>>)
  IN {<<I("Const"), BrIf0, I("Unreachable"), I("End")>>,
      <<I("Loop"), I("Const"), BrIf0, I("End"), I("Call"), I("End")>>,
      <<I("Const"), I("If"), I("Call"), I("Else"), I("Nop"), I("End"),
        I("End")>>,
      <<I("Nop"), I("Return_call"), I("End")>>,
      <<I("Call"), I("Call"), I("End")>>}

InitCount ==
  /\ \E body \in CountBodies, n \in Ints, cond \in 0..1 :
       /\ fc = Whole(CountFlags, body)
       /\ rt = [kind |-> "count", GasLimit |-> 0, gas |-> 0, gas0 |-> 0,
                InstrCount |-> n, InstrCount0 |-> n, body |-> body,
                th |-> << NewThread([NoRegs EXCEPT !.cond = cond]) >>]
  /\ val = [h |-> 0, ctrl |-> <<>>]
  /\ lastOp = NoOp
  /\ left = NoControl
  /\ tpc = "run"
  /\ stream = "any"
  /\ cc = NoCompiler

NextCount ==
  RunCount(1) \/ RunCallee(1) \/ RunCompare(1) \/ RunBranch(1)
    \/ RunTrap(1) \/ RunRet(1)

SpecCount == InitCount /\ [][NextCount]_vars

\* C27: with instruction counting on and one thread, the code has one add
\* of 1 for each instruction of the body. The shared counter and the slot
\* of the thread together hold the count at the start plus the number of
\* instructions executed, at every moment but the one between the add and
\* the store of 0 of a flush. Where the thread calls, returns,
\* tail-calls or calls the trap helper the slot is 0, so the shared counter
\* alone holds that sum; it still does when the thread has ended.
C27_CountedOnce ==
  LET r == Cur(1).r
      total == (rt.InstrCount0 + r.executed) % Mod
  IN /\ Cardinality({j \in 1..Len(fc.Emitted) :
                       fc.Emitted[j].op = "instr.inc"}) = Len(rt.body)
     /\ IF At(1, {"instr.reset"}) THEN rt.InstrCount = total
        ELSE (rt.InstrCount + r.count) % Mod = total
     /\ (At(1, {"call", "ret", "call.trap"}) \/ Cur(1).st \in {"end", "trap"})
          => (r.count = 0 /\ rt.InstrCount = total)
     /\ Cur(1).st \in {"run", "end", "trap"}
     /\ Cur(1).st = "run" =>
          /\ Cur(1).idx <= Len(Code(Cur(1).bb))
          /\ Fetch(1).op \in {"instr.inc", "instr.flush", "instr.reset",
                               "call", "icmp", "br", "condbr", "call.trap",
                               "ret"}

\* The thread has gone round the loop, left it and is at the call behind
\* it with its instructions in the shared counter.
C27_Witness ==
  /\ rt.kind = "count"
  /\ rt.body[1].op = "Loop"
  /\ At(1, {"call"})
  /\ Cur(1).branches >= 2
  /\ Cur(1).r.executed >= 4
  /\ rt.InstrCount = (rt.InstrCount0 + Cur(1).r.executed) % Mod

\* ------------------------------------------------------------------ C28
\* C28: the code of updateGas changes the shared gas cell by the
\* compare-exchange only, and the value it stores does not exceed the gas
\* limit: it is the old gas the compare-exchange expects plus the cost, the
\* sum that was compared with the limit. The reset that follows a
\* compare-exchange that succeeded leaves the counter of the thread 0. A
\* thread whose sum exceeds the limit leaves the cell and its counter as
\* they are and is in the trap block of CostLimitExceeded with the counter
\* updateGas loaded. The cell changes by a compare-exchange or by the atomic
\* add of a trap block, and goes from within the limit to above it by the
\* atomic add only.
C28_StoreWithinLimit ==
  /\ [](RanGasMT =>
         \A t \in Threads :
           (At(t, {"gas.atomic_add"})
              /\ Cur(t).bb = fc.TrapBB["CostLimitExceeded"]) =>
             /\ Cur(t).r.local = Cur(t).r.Cost
             /\ Cur(t).r.NewGas > rt.GasLimit)
  /\ [][RanGasMT =>
         /\ \A t \in Threads :
              LET r == Cur(t).r
                  r2 == rt'.th[t].r
              IN /\ (Executes(t, {"gas.cmpxchg"}) /\ rt'.gas # rt.gas) =>
                      /\ rt'.gas <= rt.GasLimit
                      /\ rt'.gas = (r.PHIOldGas + r.Cost) % Mod
                      /\ rt.gas = r.PHIOldGas
                      /\ r2.Succeed
                 /\ Executes(t, {"gas.reset"}) =>
                      r.Succeed /\ r2.local = 0
                 /\ Executes(t, {"gas.load_local", "gas.load", "phi",
                                 "gas.add", "condbr", "br"}) =>
                      rt'.gas = rt.gas /\ r2.local = r.local
                 /\ (Executes(t, {"condbr"}) /\ Fetch(t).arg = "ule"
                       /\ r.NewGas > rt.GasLimit) =>
                      /\ rt'.th[t].bb = fc.TrapBB["CostLimitExceeded"]
                      /\ rt'.gas = rt.gas /\ r2.local = r.local
                      /\ r.local = r.Cost
         /\ rt'.gas # rt.gas =>
              \E t \in Threads :
                Executes(t, {"gas.cmpxchg", "gas.atomic_add"})
         /\ (rt.gas <= rt.GasLimit /\ rt'.gas > rt.GasLimit) =>
              \E t \in Threads : Executes(t, {"gas.atomic_add"})]_vars

\* A thread met the limit and its trap block added its cost: the cell is
\* above the limit, which the flush of the other thread had kept.
C28_Witness ==
  /\ RanGasMT
  /\ rt.gas > rt.GasLimit
  /\ \E t \in Threads, u \in Threads :
       /\ Cur(t).st = "trap" /\ Cur(t).trap = "CostLimitExceeded"
       /\ Cur(t).r.NewGas > rt.GasLimit
       /\ Cur(u).st = "end" /\ Cur(u).r.Succeed /\ Cur(u).r.local = 0
       /\ Cur(u).r.NewGas <= rt.GasLimit

\* ------------------------------------------------------------------ C29
\* Several threads run one interruptible function and poll one stop-token
\* cell. The embedder stores a token that is not 0 at any moment; its
\* tokens are told apart by their values, 1 to MaxWrites.
WriteStopMT ==
  /\ rt.kind = "stopmt"
  /\ rt.writes < MaxWrites
  /\ rt' = [rt EXCEPT !.stop = rt.writes + 1, !.writes = @ + 1]
  /\ UNCHANGED tvars

InitStopMT ==
  /\ \E op \in {"Br", "Br_if"} :
       LET I == Instr(op, 0, 0, <<0>>)
       IN fc = StopFunction(TRUE, I) /\ lastOp = [NoOp EXCEPT !.I = I]
  /\ \E x \in {0, Mod - 1}, cds \in [1..NThreads -> 0..1] :
       rt = [kind |-> "stopmt", GasLimit |-> 0, gas |-> 0, gas0 |-> 0,
             th |-> [t \in 1..NThreads |->
                       NewThread([NoRegs EXCEPT !.cond = cds[t]])],
             stop |-> x, stop0 |-> x, writes |-> 0]
  /\ val = [h |-> 0, ctrl |-> <<>>]
  /\ left = NoControl
  /\ tpc = "run"
  /\ stream = "any"
  /\ cc = NoCompiler

NextStopMT ==
  \/ \E t \in Threads : RunStop(t)
  \/ \E t \in Threads : RunCompare(t)
  \/ \E t \in Threads : RunBranch(t)
  \/ \E t \in Threads : RunTrap(t)
  \/ \E t \in Threads : RunRet(t)
  \/ WriteStopMT

SpecStopMT == InitStopMT /\ [][NextStopMT]_vars

\* The threads that have taken a token and are on their way to the trap or
\* in it.
Takers == {t \in Threads : Cur(t).r.StopToken # 0}

\* C29: of the threads that poll one cell no two take the same token, so
\* no more threads trap with Interrupted than tokens were stored. A poll
\* takes the token that is in the cell and leaves 0 there; the polls after
\* it read 0 until the embedder stores again. A thread that has read 0 goes
\* on in the NotStop block, a thread that has read a token goes to the trap
\* block of Interrupted.
C29_OneTaker ==
  /\ [](rt.kind = "stopmt" =>
         /\ \A t \in Takers, u \in Takers :
              Cur(t).r.StopToken = Cur(u).r.StopToken => t = u
         /\ \A t \in Takers : Cur(t).r.StopToken # rt.stop
         /\ Cardinality(Takers)
              <= rt.writes + (IF rt.stop0 # 0 THEN 1 ELSE 0)
         /\ \A t \in Threads :
              Cur(t).st = "trap" =>
                (Cur(t).trap = "Interrupted" /\ t \in Takers))
  /\ [][rt.kind = "stopmt" =>
         \A t \in Threads :
           /\ Executes(t, {"stop.xchg"}) =>
                (rt'.th[t].r.StopToken = rt.stop /\ rt'.stop = 0)
           /\ (Executes(t, {"condbr"}) /\ Fetch(t).arg = "eq0") =>
                IF Cur(t).r.StopToken = 0
                THEN fc.Blocks[rt'.th[t].bb].name = "NotStop"
                ELSE rt'.th[t].bb = fc.TrapBB["Interrupted"]]_vars

\* One token was stored while both threads were polling: one thread has
\* trapped with it, the other has polled after that, read 0 and gone on.
C29_Witness ==
  /\ rt.kind = "stopmt" /\ rt.stop0 = 0 /\ rt.writes = 1 /\ rt.stop = 0
  /\ \E t \in Threads, u \in Threads :
       /\ Cur(t).st = "trap" /\ Cur(t).trap = "Interrupted"
       /\ Cur(t).r.StopToken = 1
       /\ Cur(u).st = "run" /\ Cur(u).r.StopToken = 0
       /\ Cur(u).r.polls > Cur(t).r.polls
       /\ fc.Blocks[Cur(u).bb].name = "NotStop"

\* ------------------------------------------------------------------ C30
\* C30: while a validated stream is translated no assertion of stackPop has
\* failed: no pop met an empty operand stack, nor a stack at the stack-base
\* of the innermost frame. The stack-bases of the open frames do not
\* decrease from the outermost frame to the innermost, and the operand
\* stack is never shorter than the stack-base of the innermost frame.
C30_PopsInBounds ==
  tpc \in {"body", "done"} =>
    /\ fc.ok
    /\ \A d \in 1..Len(fc.ControlStack) :
         /\ fc.ControlStack[d].StackSize
              <= (IF d < Len(fc.ControlStack)
                  THEN fc.ControlStack[d + 1].StackSize ELSE Len(fc.Stack))

\* An operator in a block has popped the operand stack down to the
\* stack-base of the block, which is above the bottom of the stack.
C30_Witness ==
  /\ tpc = "body" /\ fc.ok
  /\ ~lastOp.was
  /\ lastOp.I.op \in {"Drop", "Br_if", "Return", "Br"} \cup DivRemOps
  /\ Len(fc.ControlStack) >= 2
  /\ TopControl.StackSize > 0
  /\ lastOp.h0 > TopControl.StackSize
  /\ lastOp.I.op = "Drop" => Len(fc.Stack) = TopControl.StackSize

=============================================================================
